---- MODULE Spec2Model ----
(***************************************************************************)
(* A model of the durapack core library: the frame codec (encoder.rs,      *)
(* decoder.rs), the resynchronising scanner (scanner.rs), the linker       *)
(* (linker.rs), the Reed-Solomon layer (fec.rs) and the interleaver        *)
(* (interleave.rs).  The library is a set of pure functions; each is an    *)
(* operator here, and each specification draws inputs from bounded sets    *)
(* and applies the operators.                                              *)
(***************************************************************************)
EXTENDS Integers, Sequences, FiniteSets, TLC

VARIABLES
    pc,         \* which operation acted last
    hdrs,       \* codec: the (header, payload) pairs handed to encode_frame, in stream order
    stream,     \* codec: the byte buffer (concatenated encodings, possibly with inserted bytes)
    cleanScan,  \* codec: scan_stream of the buffer before bytes were inserted
    scanned,    \* codec: scan_stream of the current buffer
    decoded,    \* codec: decode_frame_from_bytes(encode_frame(h, p)) of the last frame encoded
    inserted,   \* codec: the bytes inserted between two frames (<<>> when none)
    frames,     \* linker: the input Vec<Frame>
    origin,     \* linker: the chain, in chain order, a frame was removed from (<<>> when none was)
    timeline,   \* linker: the Timeline returned by link_frames
    fec,        \* fec: the inputs and results of encode_batch / decode_batch
    ilv         \* interleaver: the input buffer, parameters, stripes and rebuilt buffer

vars == <<pc, hdrs, stream, cleanScan, scanned, decoded, inserted,
          frames, origin, timeline, fec, ilv>>

codecVars == <<hdrs, stream, cleanScan, scanned, decoded, inserted>>
linkVars == <<frames, origin, timeline>>

(***************************************************************************)
(* Sequences of bytes.                                                     *)
(***************************************************************************)
Range(s) == {s[i] : i \in 1..Len(s)}

\* &s[from..to], with the 0-based half-open bounds of the source
Slice(s, from, to) == SubSeq(s, from + 1, to)

RECURSIVE Zeros(_)
Zeros(n) ==
    IF n = 0 THEN <<>>
    ELSE IF n = 1 THEN <<0>>
    ELSE Zeros(n \div 2) \o Zeros(n - n \div 2)

RECURSIVE to_be_bytes(_, _)
to_be_bytes(n, k) ==
    IF k = 0 THEN <<>> ELSE Append(to_be_bytes(n \div 256, k - 1), n % 256)

\* uN::from_be_bytes
RECURSIVE from_be_bytes(_)
from_be_bytes(b) ==
    IF b = <<>> THEN 0
    ELSE from_be_bytes(SubSeq(b, 1, Len(b) - 1)) * 256 + b[Len(b)]

(***************************************************************************)
(* constants.rs                                                            *)
(***************************************************************************)
FRAME_MARKER == <<68, 85, 82, 80>>
ROBUST_SYNC_WORD == <<165, 90, 195, 60, 150, 105, 120, 135>>
PREAMBLE_PATTERN == <<85, 170>>
MIN_PREAMBLE_LEN == 8
PROTOCOL_VERSION == 1
MAX_FRAME_SIZE == 16 * 1024 * 1024
MAX_PAYLOAD_SIZE == MAX_FRAME_SIZE - 1024
BLAKE3_HASH_SIZE == 32
CRC32C_SIZE == 4
MIN_HEADER_SIZE == 50
SIG_SIZE == 64

HAS_CRC32C == 1
HAS_BLAKE3 == 2
IS_FIRST == 4
IS_LAST == 8
HAS_PREAMBLE == 16
HAS_SYNC_PREFIX == 32
IS_SUPERFRAME == 64
HAS_SKIPLIST == 128

\* (flags & bit) != 0
HasFlag(flags, bit) == (flags \div bit) % 2 = 1

trailer_type(flags) ==
    IF HasFlag(flags, HAS_BLAKE3) /\ HasFlag(flags, HAS_CRC32C) THEN "Blake3WithEd25519Sig"
    ELSE IF HasFlag(flags, HAS_BLAKE3) THEN "Blake3"
    ELSE IF HasFlag(flags, HAS_CRC32C) THEN "Crc32c"
    ELSE "None"

trailer_size(tt) ==
    CASE tt = "None" -> 0
      [] tt = "Crc32c" -> CRC32C_SIZE
      [] tt = "Blake3" -> BLAKE3_HASH_SIZE
      [] tt = "Blake3WithEd25519Sig" -> BLAKE3_HASH_SIZE + SIG_SIZE

(***************************************************************************)
(* CRC32C (Castagnoli), as the crc32c crate's table-driven software path:  *)
(* reflected polynomial 0x82F63B78, initial value and final xor            *)
(* 0xFFFFFFFF.  A 32-bit word is kept as its two 16-bit halves <<hi, lo>>. *)
(***************************************************************************)
RECURSIVE Xor(_, _)
Xor(a, b) ==
    IF a = 0 THEN b
    ELSE IF b = 0 THEN a
    ELSE 2 * Xor(a \div 2, b \div 2) + ((a + b) % 2)

CrcShift(w) ==
    LET hi == w[1] \div 2
        lo == w[2] \div 2 + (w[1] % 2) * 32768
    IN  IF w[2] % 2 = 1 THEN <<Xor(hi, 33526), Xor(lo, 15224)>> ELSE <<hi, lo>>

RECURSIVE CrcShifts(_, _)
CrcShifts(w, n) ==
    IF n = 0 THEN w
    ELSE LET w1 == CrcShift(w) IN IF w1[1] >= 0 THEN CrcShifts(w1, n - 1) ELSE w1

\* the table entries of the bytes from..to; entry n + 1 of CrcTable is that of byte n
RECURSIVE CrcTableRange(_, _)
CrcTableRange(from, to) ==
    IF from = to THEN <<CrcShifts(<<0, from>>, 8)>>
    ELSE LET mid == (from + to) \div 2
         IN  CrcTableRange(from, mid) \o CrcTableRange(mid + 1, to)

CrcTable == CrcTableRange(0, 255)

\* crc = table[(crc ^ b) & 0xFF] ^ (crc >> 8)
CrcByte(w, b) ==
    LET t == CrcTable[Xor(w[2] % 256, b) + 1]
    IN  <<Xor(w[1] \div 256, t[1]), Xor((w[1] % 256) * 256 + w[2] \div 256, t[2])>>

\* the bytes data[from+1..to] fed in order (split in halves to keep the recursion shallow)
RECURSIVE CrcFold(_, _, _, _)
CrcFold(w, data, from, to) ==
    IF to <= from THEN w
    ELSE IF to = from + 1 THEN CrcByte(w, data[to])
    ELSE LET mid == (from + to) \div 2
             w1 == CrcFold(w, data, from, mid)
         IN  IF w1[1] >= 0 THEN CrcFold(w1, data, mid, to) ELSE w1

\* the checksum as its four big-endian bytes (what put_u32 writes)
compute_crc32c(data) ==
    LET w == CrcFold(<<65535, 65535>>, data, 0, Len(data))
        hi == 65535 - w[1]
        lo == 65535 - w[2]
    IN  <<hi \div 256, hi % 256, lo \div 256, lo % 256>>

(***************************************************************************)
(* BLAKE3 is the blake3 crate; the model keeps what the library relies on: *)
(* a 32-byte digest that is a function of the bytes hashed, never the      *)
(* all-zero digest, and different for the different inputs of the model.   *)
(* Two 16-bit polynomial accumulators are spread over the 32 bytes.        *)
(***************************************************************************)
RECURSIVE HashFold(_, _, _, _, _, _)
HashFold(acc, mul, modulus, data, from, to) ==
    IF to <= from THEN acc
    ELSE IF to = from + 1 THEN (acc * mul + data[to] + 1) % modulus
    ELSE LET mid == (from + to) \div 2
             acc1 == HashFold(acc, mul, modulus, data, from, mid)
         IN  IF acc1 >= 0 THEN HashFold(acc1, mul, modulus, data, mid, to) ELSE acc1

compute_blake3(data) ==
    LET a == HashFold(7, 131, 65521, data, 0, Len(data))
        b == HashFold(11, 31, 65519, data, 0, Len(data))
        w == <<a \div 256, a % 256, b \div 256, b % 256>>
        w8 == w \o w \o w \o w \o w \o w \o w \o <<w[1], w[2], w[3], 255>>
    IN  w8

ZeroHash == Zeros(BLAKE3_HASH_SIZE)

(***************************************************************************)
(* types.rs: Option<T> is <<>> (None) or <<x>> (Some(x)); Result<T, E> is  *)
(* [ok |-> TRUE, val |-> x] or [ok |-> FALSE, err |-> e].                  *)
(***************************************************************************)
None == <<>>
Some(x) == <<x>>
Ok(x) == [ok |-> TRUE, val |-> x]
Err(e) == [ok |-> FALSE, err |-> e]

\* a call that returns, and a call that aborts (a failed assert!, an arithmetic
\* overflow in a build with overflow checks)
Returned(x) == [panicked |-> FALSE, val |-> x]

Panicked(msg) == [panicked |-> TRUE, msg |-> msg]

IsPanic(r) == "panicked" \in DOMAIN r /\ r.panicked

(***************************************************************************)
(* u32 arithmetic.  A u32 is kept as its two 16-bit halves <<hi, lo>>, so  *)
(* that every value up to 2^32 - 1 and the carry out of an addition can be *)
(* represented.                                                            *)
(***************************************************************************)
\* u32::from_be_bytes
u32_from_be_bytes(b) == <<b[1] * 256 + b[2], b[3] * 256 + b[4]>>

\* `n as u32` of a number below 2^31
as_u32(n) == <<n \div 65536, n % 65536>>

\* a + b on u32: the sum modulo 2^32 and whether it overflowed
u32_add(a, b) ==
    LET lo == a[2] + b[2]
        hi == a[1] + b[1] + lo \div 65536
    IN  [val |-> <<hi % 65536, lo % 65536>>, overflow |-> hi >= 65536]

\* a > n, for a number n below 2^31
u32_gt(a, n) == a[1] > n \div 65536 \/ (a[1] = n \div 65536 /\ a[2] > n % 65536)

\* the number, when it is below 2^31 (`as usize`)
u32_as_usize(a) == a[1] * 65536 + a[2]

\* the value carried by an error: the number when it is below 2^31, else its halves
u32_value(a) == IF a[1] < 32768 THEN u32_as_usize(a) ELSE a

(***************************************************************************)
(* u64 frame ids.  A u64 is kept as the integer its 64 bits denote when     *)
(* read as i64: the ids below 2^31 are themselves, and the ids from         *)
(* 2^64 - 2^31 up are negative (u64::MAX is -1).  to_be_bytes(id, 8) gives  *)
(* the eight bytes of the u64 in both ranges.                               *)
(***************************************************************************)
u64_MAX == 0 - 1

\* a <= b on u64 (the unsigned order)
u64_le(a, b) == IF (a >= 0) = (b >= 0) THEN a <= b ELSE a >= 0

\* a + 1 on u64: the sum modulo 2^64 and whether it overflowed
u64_add_one(a) == [val |-> a + 1, overflow |-> a = u64_MAX]

FrameHeader(frame_id, prev_hash, payload_len, flags) ==
    [version |-> PROTOCOL_VERSION, frame_id |-> frame_id, prev_hash |-> prev_hash,
     payload_len |-> payload_len, flags |-> flags]

Frame(header, payload, trailer) ==
    [header |-> header, payload |-> payload, trailer |-> trailer]

\* a faulty validate, which checks the version only
validate_version_only(header) ==
    IF header.version # PROTOCOL_VERSION THEN Err(<<"UnsupportedVersion", header.version>>)
    ELSE Ok(TRUE)

validate(header) ==
    IF header.version # PROTOCOL_VERSION THEN Err(<<"UnsupportedVersion", header.version>>)
    ELSE IF header.payload_len > MAX_PAYLOAD_SIZE
         THEN Err(<<"PayloadTooLarge", header.payload_len, MAX_PAYLOAD_SIZE>>)
    ELSE Ok(TRUE)

\* FrameHeader::is_first: prev_hash == [0u8; 32]
is_first(header) == header.prev_hash = ZeroHash

\* the 46 bytes after the marker
header_bytes(header) ==
    <<header.version>> \o to_be_bytes(header.frame_id, 8) \o header.prev_hash
        \o to_be_bytes(header.payload_len, 4) \o <<header.flags>>

\* Frame::compute_hash: BLAKE3 over the header fields and the payload, marker excluded
compute_hash(frame) == compute_blake3(header_bytes(frame.header) \o frame.payload)

(***************************************************************************)
(* encoder.rs                                                              *)
(***************************************************************************)
RECURSIVE Preamble(_)
Preamble(n) ==
    IF n = 0 THEN <<>>
    ELSE Append(Preamble(n - 1), PREAMBLE_PATTERN[((n - 1) % Len(PREAMBLE_PATTERN)) + 1])

\* the buffer encode_frame has filled when it reaches the trailer
encode_body(header, payload) ==
    (IF HasFlag(header.flags, HAS_PREAMBLE) THEN Preamble(MIN_PREAMBLE_LEN) ELSE <<>>)
        \o (IF HasFlag(header.flags, HAS_SYNC_PREFIX) THEN ROBUST_SYNC_WORD ELSE <<>>)
        \o FRAME_MARKER \o header_bytes(header) \o payload

\* the trailer is computed over everything written so far (compute_crc32c(&buf))
encode_trailer(tt, buf) ==
    CASE tt = "None" -> <<>>
      [] tt = "Crc32c" -> compute_crc32c(buf)
      [] tt = "Blake3" -> compute_blake3(buf)
      [] tt = "Blake3WithEd25519Sig" -> compute_blake3(buf) \o Zeros(SIG_SIZE)

encode_frame(header, payload) ==
    LET v == validate(header)
    IN  IF ~v.ok THEN v
        ELSE IF Len(payload) # header.payload_len
             THEN Err(<<"InvalidStructure", "Payload length mismatch">>)
        ELSE LET buf == encode_body(header, payload)
             IN  Ok(buf \o encode_trailer(trailer_type(header.flags), buf))

\* ed25519_dalek's SigningKey::sign(msg).to_bytes(): 64 bytes that depend on the key
\* and on every byte of the message (a stand-in built from the digest; never all zeros)
ed25519_sign(signing_key, msg) ==
    compute_blake3(signing_key \o msg) \o compute_blake3(msg \o signing_key)

encode_frame_signed(header, payload, signing_key) ==
    LET encoded == encode_frame(header, payload)
    IN  IF ~encoded.ok THEN encoded
        ELSE IF trailer_type(header.flags) = "Blake3WithEd25519Sig"
        THEN LET msg == FRAME_MARKER \o header_bytes(header) \o payload
                 sig == ed25519_sign(signing_key, msg)
                 sig_start == Len(encoded.val) - 64
             IN  Ok(Slice(encoded.val, 0, sig_start) \o sig)
        ELSE encoded

\* self.flags |= bit
BitOr(flags, bit) == IF HasFlag(flags, bit) THEN flags ELSE flags + bit

FrameBuilder_new(frame_id) ==
    [frame_id |-> frame_id, prev_hash |-> ZeroHash, payload |-> <<>>, flags |-> 0]

FrameBuilder_prev_hash(self, hash) == [self EXCEPT !.prev_hash = hash]

FrameBuilder_payload(self, bytes) == [self EXCEPT !.payload = bytes]

FrameBuilder_with_crc32c(self) == [self EXCEPT !.flags = BitOr(self.flags, HAS_CRC32C)]

FrameBuilder_with_blake3(self) == [self EXCEPT !.flags = BitOr(self.flags, HAS_BLAKE3)]

FrameBuilder_mark_first(self) ==
    [self EXCEPT !.flags = BitOr(self.flags, IS_FIRST), !.prev_hash = ZeroHash]

FrameBuilder_mark_last(self) == [self EXCEPT !.flags = BitOr(self.flags, IS_LAST)]

FrameBuilder_as_superframe(self) == [self EXCEPT !.flags = BitOr(self.flags, IS_SUPERFRAME)]

FrameBuilder_with_skiplist(self) == [self EXCEPT !.flags = BitOr(self.flags, HAS_SKIPLIST)]

FrameBuilder_with_blake3_signature(self) ==
    [self EXCEPT !.flags = BitOr(BitOr(self.flags, HAS_BLAKE3), HAS_CRC32C)]

\* the key parameter (_sk) is not used
FrameBuilder_sign_with_ed25519(self, sk) == FrameBuilder_with_blake3_signature(self)

FrameBuilder_build(self) ==
    encode_frame(FrameHeader(self.frame_id, self.prev_hash, Len(self.payload), self.flags),
                 self.payload)

FrameBuilder_build_struct(self) ==
    LET header == FrameHeader(self.frame_id, self.prev_hash, Len(self.payload), self.flags)
    IN  IF ~validate(header).ok THEN validate(header)
        ELSE Ok(Frame(header, self.payload, None))

(***************************************************************************)
(* decoder.rs: decode_frame reads from a cursor over the buffer; a         *)
(* read_exact past the end is an io::Error, which error.rs turns into      *)
(* FrameError::Io.                                                         *)
(***************************************************************************)
Eof == Err(<<"Io", "failed to fill whole buffer">>)

\* the trailer check of decode_frame, after the payload has been read
decode_trailer(data, header, header_buf, payload, tt) ==
    LET tstart == MIN_HEADER_SIZE + Len(payload)
        body == FRAME_MARKER \o header_buf \o payload
    IN  CASE tt = "None" -> Ok(Frame(header, payload, Some(<<>>)))
          [] tt = "Crc32c" ->
                IF Len(data) < tstart + CRC32C_SIZE THEN Eof
                ELSE LET expected == Slice(data, tstart, tstart + CRC32C_SIZE)
                         actual == compute_crc32c(body)
                     IN  IF actual # expected
                         THEN Err(<<"ChecksumMismatch", expected, actual>>)
                         ELSE Ok(Frame(header, payload, Some(expected)))
          [] tt = "Blake3" ->
                IF Len(data) < tstart + BLAKE3_HASH_SIZE THEN Eof
                ELSE LET expected == Slice(data, tstart, tstart + BLAKE3_HASH_SIZE)
                     IN  IF compute_blake3(body) # expected THEN Err(<<"HashMismatch">>)
                         ELSE Ok(Frame(header, payload, Some(expected)))
          [] tt = "Blake3WithEd25519Sig" ->
                IF Len(data) < tstart + BLAKE3_HASH_SIZE + SIG_SIZE THEN Eof
                ELSE LET expected == Slice(data, tstart, tstart + BLAKE3_HASH_SIZE)
                         sig == Slice(data, tstart + BLAKE3_HASH_SIZE,
                                      tstart + BLAKE3_HASH_SIZE + SIG_SIZE)
                     IN  IF compute_blake3(body) # expected THEN Err(<<"HashMismatch">>)
                         ELSE Ok(Frame(header, payload, Some(expected \o sig)))

\* MIN_HEADER_SIZE as u32 + payload_len + trailer size as u32, added left to right in
\* u32: the wrapped sum and whether either addition overflowed
total_frame_size_u32(payload_len, tsize) ==
    LET with_payload == u32_add(as_u32(MIN_HEADER_SIZE), payload_len)
        with_trailer == u32_add(with_payload.val, as_u32(tsize))
    IN  [val |-> with_trailer.val,
         overflow |-> with_payload.overflow \/ with_trailer.overflow]

\* overflow_checks: whether the build checks integer overflow (the dev and test
\* profiles do and abort; the release profile wraps)
decode_frame(data, overflow_checks) ==
    IF Len(data) < 4 THEN Eof
    ELSE IF Slice(data, 0, 4) # FRAME_MARKER THEN Err(<<"BadMarker", Slice(data, 0, 4)>>)
    ELSE IF Len(data) < MIN_HEADER_SIZE THEN Eof
    ELSE
      LET header_buf == Slice(data, 4, MIN_HEADER_SIZE)
          version == header_buf[1]
          prev_hash == Slice(header_buf, 9, 41)
          payload_len == u32_from_be_bytes(Slice(header_buf, 41, 45))
          flags == header_buf[46]
          tt == trailer_type(flags)
          total_frame_size == total_frame_size_u32(payload_len, trailer_size(tt))
      IN  IF version # PROTOCOL_VERSION THEN Err(<<"UnsupportedVersion", version>>)
          ELSE IF total_frame_size.overflow /\ overflow_checks
               THEN Panicked("attempt to add with overflow")
          ELSE IF u32_gt(total_frame_size.val, MAX_FRAME_SIZE)
               THEN Err(<<"FrameTooLarge", u32_value(total_frame_size.val), MAX_FRAME_SIZE>>)
          \* header.validate() of a payload_len beyond the limit
          ELSE IF u32_gt(payload_len, MAX_PAYLOAD_SIZE)
               THEN Err(<<"PayloadTooLarge", u32_value(payload_len), MAX_PAYLOAD_SIZE>>)
          ELSE
            LET len == u32_as_usize(payload_len)
                header == FrameHeader(from_be_bytes(Slice(header_buf, 1, 9)), prev_hash,
                                      len, flags)
            IN  IF ~validate(header).ok THEN validate(header)
                ELSE IF Len(data) < MIN_HEADER_SIZE + len THEN Eof
                ELSE decode_trailer(data, header, header_buf,
                                    Slice(data, MIN_HEADER_SIZE, MIN_HEADER_SIZE + len), tt)

\* MIN_HEADER_SIZE + payload_len as usize + trailer_size, computed in usize (64 bits,
\* where the sum of three numbers below 2^32 cannot overflow): whether it exceeds
\* MAX_FRAME_SIZE, and the u32 that `as u32` truncates it to
total_size_usize(payload_len, tsize) ==
    [too_large |-> u32_gt(payload_len, MAX_FRAME_SIZE - MIN_HEADER_SIZE - tsize),
     as_u32 |-> u32_add(u32_add(as_u32(MIN_HEADER_SIZE), payload_len).val, as_u32(tsize)).val]

\* the trailer check of decode_frame_from_bytes_zero_copy and the frame it builds
zero_copy_trailer(buf, header, payload_end, tt) ==
    LET main_slice == Slice(buf, 0, payload_end)
        trailer_bytes == Slice(buf, payload_end, payload_end + trailer_size(tt))
        payload == Slice(buf, MIN_HEADER_SIZE, payload_end)
    IN  CASE tt = "None" -> Ok(Frame(header, payload, None))
          [] tt = "Crc32c" ->
                IF Len(trailer_bytes) # CRC32C_SIZE
                THEN Err(<<"IncompleteFrame", payload_end + CRC32C_SIZE, Len(buf)>>)
                ELSE IF compute_crc32c(main_slice) # trailer_bytes
                THEN Err(<<"ChecksumMismatch", trailer_bytes, compute_crc32c(main_slice)>>)
                ELSE Ok(Frame(header, payload, Some(trailer_bytes)))
          [] tt = "Blake3" ->
                IF Len(trailer_bytes) # BLAKE3_HASH_SIZE
                THEN Err(<<"IncompleteFrame", payload_end + BLAKE3_HASH_SIZE, Len(buf)>>)
                ELSE IF compute_blake3(main_slice) # trailer_bytes THEN Err(<<"HashMismatch">>)
                ELSE Ok(Frame(header, payload, Some(trailer_bytes)))
          [] tt = "Blake3WithEd25519Sig" ->
                IF Len(trailer_bytes) # BLAKE3_HASH_SIZE + SIG_SIZE
                THEN Err(<<"IncompleteFrame", payload_end + BLAKE3_HASH_SIZE + SIG_SIZE,
                           Len(buf)>>)
                ELSE IF compute_blake3(main_slice) # Slice(trailer_bytes, 0, BLAKE3_HASH_SIZE)
                THEN Err(<<"HashMismatch">>)
                ELSE Ok(Frame(header, payload, Some(trailer_bytes)))

decode_frame_from_bytes_zero_copy(buf) ==
    IF Len(buf) < MIN_HEADER_SIZE
    THEN Err(<<"IncompleteFrame", MIN_HEADER_SIZE, Len(buf)>>)
    ELSE IF Slice(buf, 0, 4) # FRAME_MARKER THEN Err(<<"BadMarker", Slice(buf, 0, 4)>>)
    ELSE
      LET header_buf == Slice(buf, 4, MIN_HEADER_SIZE)
          version == header_buf[1]
          prev_hash == Slice(header_buf, 9, 41)
          payload_len == u32_from_be_bytes(Slice(header_buf, 41, 45))
          flags == header_buf[46]
          tt == trailer_type(flags)
          total == total_size_usize(payload_len, trailer_size(tt))
      IN  IF version # PROTOCOL_VERSION THEN Err(<<"UnsupportedVersion", version>>)
          ELSE IF total.too_large
               THEN Err(<<"FrameTooLarge", u32_value(total.as_u32), MAX_FRAME_SIZE>>)
          ELSE
            LET len == u32_as_usize(payload_len)
                total_frame_size == MIN_HEADER_SIZE + len + trailer_size(tt)
                header == FrameHeader(from_be_bytes(Slice(header_buf, 1, 9)), prev_hash,
                                      len, flags)
            IN  IF Len(buf) < total_frame_size
                THEN Err(<<"IncompleteFrame", total_frame_size, Len(buf)>>)
                ELSE IF ~validate(header).ok THEN validate(header)
                ELSE zero_copy_trailer(buf, header, MIN_HEADER_SIZE + len, tt)

\* a build of the crate: with or without the std feature, with or without
\* overflow checks
Builds == [std : BOOLEAN, overflow_checks : BOOLEAN]

\* with std: a Cursor over the bytes, read by decode_frame; without: the zero-copy parse
decode_frame_from_bytes(data, build) ==
    IF build.std THEN decode_frame(data, build.overflow_checks)
    ELSE decode_frame_from_bytes_zero_copy(data)

(***************************************************************************)
(* scanner.rs                                                              *)
(***************************************************************************)
\* the first position at or after pos where the marker starts, as an Option
find_marker(data, pos) ==
    LET hits == {p \in pos..(Len(data) - Len(FRAME_MARKER)) :
                    \A i \in 1..Len(FRAME_MARKER) : data[p + i] = FRAME_MARKER[i]}
    IN  IF hits = {} THEN None ELSE Some(CHOOSE p \in hits : \A q \in hits : p <= q)

\* a faulty LocatedFrame: the size of the header in place of the size of the frame
LocatedFrameHeaderOnly(offset, frame, size) ==
    [offset |-> offset, frame |-> frame, size |-> MIN_HEADER_SIZE]

LocatedFrame(offset, frame, size) == [offset |-> offset, frame |-> frame, size |-> size]

try_decode_at_offset(data, offset, build) ==
    IF offset + MIN_HEADER_SIZE > Len(data)
    THEN Err(<<"IncompleteFrame", MIN_HEADER_SIZE, Len(data) - offset>>)
    ELSE
      LET payload_len_offset == offset + 4 + 1 + 8 + 32
          payload_len == u32_from_be_bytes(Slice(data, payload_len_offset,
                                                 payload_len_offset + 4))
          flags == data[payload_len_offset + 4 + 1]
          tsize == trailer_size(trailer_type(flags))
          total == total_size_usize(payload_len, tsize)
      IN  IF total.too_large
          THEN Err(<<"FrameTooLarge", u32_value(total.as_u32), MAX_FRAME_SIZE>>)
          ELSE
            LET total_size == MIN_HEADER_SIZE + u32_as_usize(payload_len) + tsize
            IN  IF offset + total_size > Len(data)
                THEN Err(<<"IncompleteFrame", total_size, Len(data) - offset>>)
                ELSE LET located(r) ==
                             IF IsPanic(r) THEN r
                             ELSE IF r.ok THEN Ok(LocatedFrame(offset, r.val, total_size))
                             ELSE r
                     IN  located(decode_frame_from_bytes(
                                     Slice(data, offset, offset + total_size), build))

\* the loop of scan_stream; a panic of the decoder ends the scan
RECURSIVE scan_from(_, _, _, _)
scan_from(data, pos, results, build) ==
    IF pos >= Len(data) THEN Returned(results)
    ELSE LET m == find_marker(data, pos)
             tried(r) ==
                 IF IsPanic(r) THEN r
                 ELSE IF r.ok
                 THEN scan_from(data, m[1] + r.val.size, Append(results, r.val), build)
                 ELSE scan_from(data, m[1] + Len(FRAME_MARKER), results, build)
         IN  IF m = None THEN Returned(results)
             ELSE tried(try_decode_at_offset(data, m[1], build))

\* Returned(the located frames), or the panic
scan_stream(data, build) == scan_from(data, 0, <<>>, build)

ScanStats(bytes_scanned) ==
    [bytes_scanned |-> bytes_scanned, frames_found |-> 0, markers_found |-> 0,
     decode_failures |-> 0, bytes_recovered |-> 0]

\* the loop of scan_stream_with_stats
RECURSIVE scan_with_stats_from(_, _, _, _, _)
scan_with_stats_from(data, pos, results, stats, build) ==
    IF pos >= Len(data) THEN Returned(<<results, stats>>)
    ELSE LET m == find_marker(data, pos)
             found == [stats EXCEPT !.markers_found = @ + 1]
             tried(r) ==
                 IF IsPanic(r) THEN r
                 ELSE IF r.ok
                 THEN scan_with_stats_from(
                          data, m[1] + r.val.size, Append(results, r.val),
                          [found EXCEPT !.bytes_recovered = @ + r.val.size], build)
                 ELSE scan_with_stats_from(
                          data, m[1] + Len(FRAME_MARKER), results,
                          [found EXCEPT !.decode_failures = @ + 1], build)
         IN  IF m = None THEN Returned(<<results, stats>>)
             ELSE tried(try_decode_at_offset(data, m[1], build))

\* Returned(<<the located frames, the statistics>>), or the panic
scan_stream_with_stats(data, build) ==
    LET counted(r) ==
            IF IsPanic(r) THEN r
            ELSE Returned(<<r.val[1], [r.val[2] EXCEPT !.frames_found = Len(r.val[1])]>>)
    IN  counted(scan_with_stats_from(data, 0, <<>>, ScanStats(Len(data)), build))

\* the loop of scan_stream_zero_copy: the frame pushed is the one the zero-copy
\* decoder returns for the slice try_decode_at_offset has sized
RECURSIVE scan_zero_copy_from(_, _, _, _)
scan_zero_copy_from(buf, pos, results, build) ==
    IF pos >= Len(buf) THEN Returned(results)
    ELSE LET m == find_marker(buf, pos)
             sliced(loc, frame) ==
                 IF frame.ok
                 THEN scan_zero_copy_from(
                          buf, m[1] + loc.size,
                          Append(results, LocatedFrame(m[1], frame.val, loc.size)), build)
                 ELSE scan_zero_copy_from(buf, m[1] + Len(FRAME_MARKER), results, build)
             tried(r) ==
                 IF IsPanic(r) THEN r
                 ELSE IF r.ok
                 THEN sliced(r.val, decode_frame_from_bytes_zero_copy(
                                        Slice(buf, m[1], m[1] + r.val.size)))
                 ELSE scan_zero_copy_from(buf, m[1] + Len(FRAME_MARKER), results, build)
         IN  IF m = None THEN Returned(results)
             ELSE tried(try_decode_at_offset(buf, m[1], build))

scan_stream_zero_copy(buf, build) == scan_zero_copy_from(buf, 0, <<>>, build)

(***************************************************************************)
(* linker.rs                                                               *)
(***************************************************************************)
Timeline(fs, gaps, orphans) == [frames |-> fs, gaps |-> gaps, orphans |-> orphans]

\* a faulty SequenceGap, with before and after exchanged
SequenceGapReversed(before, after, expected_hash) ==
    [before |-> after, after |-> before, expected_hash |-> expected_hash]

SequenceGap(before, after, expected_hash) ==
    [before |-> before, after |-> after, expected_hash |-> expected_hash]

FrameIdsOf(fs) == {fs[i].header.frame_id : i \in 1..Len(fs)}

\* the frame a BTreeMap keeps for id: insert() replaces the earlier value of the key
LastWithId(fs, id) ==
    fs[CHOOSE i \in 1..Len(fs) :
          /\ fs[i].header.frame_id = id
          /\ \A j \in (i + 1)..Len(fs) : fs[j].header.frame_id # id]

\* the ids of a set in ascending (u64) order
RECURSIVE SortedIds(_)
SortedIds(ids) ==
    IF ids = {} THEN <<>>
    ELSE LET m == CHOOSE x \in ids : \A y \in ids : u64_le(x, y)
         IN  <<m>> \o SortedIds(ids \ {m})

\* frame_map.values(): the frames of the BTreeMap<u64, Frame> in ascending key order
frame_map_values(fs) ==
    LET ids == SortedIds(FrameIdsOf(fs))
    IN  [i \in 1..Len(ids) |-> LastWithId(fs, ids[i])]

\* the index in values of the unvisited frame with the smallest frame_id
MinUnvisited(values, visited) ==
    CHOOSE i \in 1..Len(values) :
        /\ values[i].header.frame_id \notin visited
        /\ \A j \in 1..Len(values) :
              values[j].header.frame_id \notin visited
                  => u64_le(values[i].header.frame_id, values[j].header.frame_id)

\* the loop of link_frames: follow prev_hash == current_hash, else jump the gap to
\* the unvisited frame with the smallest id
RECURSIVE walk(_, _, _, _, _)
walk(values, ordered, gaps, visited, current) ==
    LET current_hash == compute_hash(current)
        current_id == current.header.frame_id
        matching == {i \in 1..Len(values) :
                        /\ values[i].header.frame_id \notin visited
                        /\ values[i].header.prev_hash = current_hash}
        next_frame == IF matching = {} THEN None
                      ELSE Some(CHOOSE i \in matching : \A j \in matching : i <= j)
        unvisited == {i \in 1..Len(values) : values[i].header.frame_id \notin visited}
    IN  IF next_frame # None
        THEN LET f == values[next_frame[1]]
             IN  walk(values, Append(ordered, f), gaps,
                      visited \cup {f.header.frame_id}, f)
        ELSE IF unvisited # {}
        THEN LET f == values[MinUnvisited(values, visited)]
             IN  walk(values, Append(ordered, f),
                      Append(gaps, SequenceGap(current_id, f.header.frame_id,
                                               Some(f.header.prev_hash))),
                      visited \cup {f.header.frame_id}, f)
        ELSE Timeline(ordered, gaps,
                      SelectSeq(values, LAMBDA f : f.header.frame_id \notin visited))

\* the gaps reconstruct_without_first finds between neighbours of the sorted frames
RECURSIVE window_gaps(_, _)
window_gaps(fs, i) ==
    IF i >= Len(fs) THEN <<>>
    ELSE LET curr == fs[i]
             next == fs[i + 1]
             here == IF \/ next.header.frame_id # curr.header.frame_id + 1
                        \/ next.header.prev_hash # compute_hash(curr)
                     THEN <<SequenceGap(curr.header.frame_id, next.header.frame_id,
                                        Some(next.header.prev_hash))>>
                     ELSE <<>>
         IN  here \o window_gaps(fs, i + 1)

reconstruct_without_first(values) == Timeline(values, window_gaps(values, 1), <<>>)

link_frames(fs) ==
    IF fs = <<>> THEN Timeline(<<>>, <<>>, <<>>)
    ELSE LET values == frame_map_values(fs)
             first_frames == SelectSeq(values, LAMBDA f : is_first(f.header))
         IN  IF first_frames = <<>> THEN reconstruct_without_first(values)
             ELSE LET first_frame ==
                          first_frames[CHOOSE i \in 1..Len(first_frames) :
                              \A j \in 1..Len(first_frames) :
                                  u64_le(first_frames[i].header.frame_id,
                                         first_frames[j].header.frame_id)]
                  IN  walk(values, <<first_frame>>, <<>>,
                           {first_frame.header.frame_id}, first_frame)

\* verify_backlinks: the ids of the frames whose prev_hash is not the hash of the
\* frame before them in the timeline
verify_backlinks(tl) ==
    LET bad == SelectSeq([i \in 1..(Len(tl.frames) - 1) |-> i + 1],
                         LAMBDA i : tl.frames[i].header.prev_hash
                                        # compute_hash(tl.frames[i - 1]))
    IN  [k \in 1..Len(bad) |-> <<"BackLinkMismatch", tl.frames[bad[k]].header.frame_id>>]

\* a faulty stats whose continuity counts every gap as a missing frame
stats_counting_gaps(tl) ==
    LET total == Len(tl.frames) + Len(tl.orphans)
    IN  [total_frames |-> total,
         gaps |-> Len(tl.gaps),
         orphans |-> Len(tl.orphans),
         continuity |-> IF total = 0 THEN <<0, 1>>
                        ELSE <<Len(tl.frames) * 100, total + Len(tl.gaps)>>]

\* Timeline::stats; continuity (an f64) is kept as the fraction <<num, den>>
stats(tl) ==
    LET total == Len(tl.frames) + Len(tl.orphans)
    IN  [total_frames |-> total,
         gaps |-> Len(tl.gaps),
         orphans |-> Len(tl.orphans),
         continuity |-> IF total = 0 THEN <<0, 1>> ELSE <<Len(tl.frames) * 100, total>>]

\* continuity == x, for a whole number x
ContinuityIs(st, x) == st.continuity[1] = x * st.continuity[2]

(***************************************************************************)
(* interleave.rs: a call returns Returned(value) or, when an assert! fails, *)
(* Panicked(message).                                                      *)
(***************************************************************************)
InterleaveParams(group, shard_len) == [group |-> group, shard_len |-> shard_len]

Min(a, b) == IF a <= b THEN a ELSE b

\* the while loop of interleave_bytes with its inner for loop over the lanes:
\* lane is the lane the next block goes to
RECURSIVE interleave_loop(_, _, _, _, _)
interleave_loop(input, params, out, idx, lane) ==
    IF idx >= Len(input) THEN out
    ELSE LET end == Min(idx + params.shard_len, Len(input))
             put == [out EXCEPT ![lane + 1] = @ \o Slice(input, idx, end)]
         IN  interleave_loop(input, params, put, end, (lane + 1) % params.group)

interleave_bytes(input, params) ==
    IF ~(params.group > 0 /\ params.shard_len > 0)
    THEN Panicked("group/shard_len must be > 0")
    ELSE Returned(interleave_loop(input, params, [i \in 1..params.group |-> <<>>], 0, 0))

\* one pass of the for loop of deinterleave_bytes over the lanes, from lane on:
\* st is <<out, cursors, advanced_any>>
RECURSIVE deinterleave_round(_, _, _, _)
deinterleave_round(stripes, params, st, lane) ==
    IF lane >= params.group THEN st
    ELSE LET lane_buf == stripes[lane + 1]
             cur == st[2][lane + 1]
             end == Min(cur + params.shard_len, Len(lane_buf))
         IN  IF cur >= Len(lane_buf)
             THEN deinterleave_round(stripes, params, st, lane + 1)
             ELSE deinterleave_round(stripes, params,
                                     <<st[1] \o Slice(lane_buf, cur, end),
                                       [st[2] EXCEPT ![lane + 1] = end],
                                       TRUE>>,
                                     lane + 1)

\* a faulty deinterleave loop that stops after the first round
deinterleave_one_round(stripes, params, out, cursors) ==
    deinterleave_round(stripes, params, <<out, cursors, FALSE>>, 0)[1]

RECURSIVE deinterleave_loop(_, _, _, _)
deinterleave_loop(stripes, params, out, cursors) ==
    LET st == deinterleave_round(stripes, params, <<out, cursors, FALSE>>, 0)
    IN  IF ~st[3] THEN st[1]
        ELSE deinterleave_loop(stripes, params, st[1], st[2])

deinterleave_bytes(stripes, params) ==
    IF ~(params.group > 0 /\ params.shard_len > 0)
    THEN Panicked("group/shard_len must be > 0")
    ELSE IF Len(stripes) # params.group
    THEN Panicked("expected lanes")
    ELSE Returned(deinterleave_loop(stripes, params, <<>>,
                                    [i \in 1..params.group |-> 0]))

(***************************************************************************)
(* The reed-solomon-erasure crate, galois_8: arithmetic in GF(2^8) with    *)
(* the generating polynomial 0x11D, and the systematic coding matrix made  *)
(* from a Vandermonde matrix.  Matrices are tuples of rows.                *)
(***************************************************************************)
\* the tuple <<f[1], ..., f[n]>> of a function on 1..n
Tuple(f, n) == SubSeq(f, 1, n)

\* multiplication by x
gf_double(a) == IF 2 * a >= 256 THEN Xor(2 * a - 256, 29) ELSE 2 * a

RECURSIVE gf_mul(_, _)
gf_mul(a, b) ==
    IF a = 0 \/ b = 0 THEN 0
    ELSE Xor(IF b % 2 = 1 THEN a ELSE 0, gf_mul(gf_double(a), b \div 2))

RECURSIVE gf_exp(_, _)
gf_exp(a, n) ==
    IF n = 0 THEN 1
    ELSE LET h == gf_exp(a, n \div 2)
             sq == gf_mul(h, h)
         IN  IF n % 2 = 1 THEN gf_mul(sq, a) ELSE sq

\* a / b for b # 0: b^254 is the inverse of b
gf_div(a, b) == gf_mul(a, gf_exp(b, 254))

\* the sum (xor) of the elements of a tuple
RECURSIVE gf_sum(_)
gf_sum(s) == IF s = <<>> THEN 0 ELSE Xor(Head(s), gf_sum(Tail(s)))

vandermonde(rows, cols) ==
    Tuple([r \in 1..rows |-> Tuple([c \in 1..cols |-> gf_exp(r - 1, c - 1)], cols)], rows)

matrix_multiply(a, b) ==
    LET inner == Len(b)
        cols == Len(b[1])
    IN  Tuple([r \in 1..Len(a) |->
              Tuple([c \in 1..cols |->
                    gf_sum(Tuple([k \in 1..inner |-> gf_mul(a[r][k], b[k][c])], inner))],
                    cols)],
              Len(a))

\* the matrix without row i and column j
Minor(m, i, j) ==
    LET n == Len(m)
    IN  Tuple([r \in 1..(n - 1) |->
              Tuple([c \in 1..(n - 1) |->
                    m[IF r < i THEN r ELSE r + 1][IF c < j THEN c ELSE c + 1]], n - 1)],
              n - 1)

\* the determinant, expanded along the first row (signs vanish in characteristic 2)
RECURSIVE Determinant(_)
Determinant(m) ==
    IF Len(m) = 1 THEN m[1][1]
    ELSE gf_sum(Tuple([j \in 1..Len(m) |->
                      IF m[1][j] = 0 THEN 0
                      ELSE gf_mul(m[1][j], Determinant(Minor(m, 1, j)))],
                      Len(m)))

\* Matrix::invert: None for a singular matrix; the crate eliminates, the model
\* divides the transposed cofactors by the determinant, which is the same matrix
matrix_invert(m) ==
    LET n == Len(m)
        det == Determinant(m)
    IN  IF det = 0 THEN None
        ELSE IF n = 1 THEN Some(<<<<gf_div(1, det)>>>>)
        ELSE Some(Tuple([r \in 1..n |->
                        Tuple([c \in 1..n |->
                              gf_div(Determinant(Minor(m, c, r)), det)], n)],
                        n))

\* ReedSolomon::build_matrix: the Vandermonde matrix times the inverse of its top
\* square, so that the first data_shards rows are the identity
build_matrix(data_shards, total_shards) ==
    LET vm == vandermonde(total_shards, data_shards)
        top == SubSeq(vm, 1, data_shards)
    IN  matrix_multiply(vm, matrix_invert(top)[1])

\* ReedSolomon::new(data_shards, parity_shards)
ReedSolomon_new(data_shards, parity_shards) ==
    IF data_shards = 0 THEN Err("TooFewDataShards")
    ELSE IF parity_shards = 0 THEN Err("TooFewParityShards")
    ELSE IF data_shards + parity_shards > 256 THEN Err("TooManyShards")
    ELSE Ok([data_shard_count |-> data_shards,
             parity_shard_count |-> parity_shards,
             total_shard_count |-> data_shards + parity_shards,
             matrix |-> build_matrix(data_shards, data_shards + parity_shards)])

\* the shard sum_k row[k] * inputs[k], byte by byte
code_shard(row, inputs, shard_len) ==
    Tuple([b \in 1..shard_len |->
              gf_sum(Tuple([k \in 1..Len(inputs) |-> gf_mul(row[k], inputs[k][b])],
                           Len(inputs)))],
          shard_len)

\* ReedSolomon::encode: the data shards followed by the computed parity shards
rs_encode(rsc, shards) ==
    IF Len(shards) < rsc.total_shard_count THEN Err("TooFewShards")
    ELSE IF Len(shards) > rsc.total_shard_count THEN Err("TooManyShards")
    ELSE IF Len(shards[1]) = 0 THEN Err("EmptyShard")
    ELSE IF \E i \in 1..Len(shards) : Len(shards[i]) # Len(shards[1])
    THEN Err("IncorrectShardSize")
    ELSE LET data == SubSeq(shards, 1, rsc.data_shard_count)
         IN  Ok(data \o Tuple([p \in 1..rsc.parity_shard_count |->
                                  code_shard(rsc.matrix[rsc.data_shard_count + p], data,
                                             Len(shards[1]))],
                              rsc.parity_shard_count))

\* the indices of the first n present shards
RECURSIVE FirstPresent(_, _, _)
FirstPresent(shards, n, i) ==
    IF n = 0 \/ i > Len(shards) THEN <<>>
    ELSE IF shards[i] # None THEN <<i>> \o FirstPresent(shards, n - 1, i + 1)
    ELSE FirstPresent(shards, n, i + 1)

\* ReedSolomon::reconstruct on a Vec<Option<Vec<u8>>>: every shard present in the
\* result, the missing data shards decoded from the first data_shard_count present
\* shards, the missing parity shards encoded again from the data
rs_reconstruct(rsc, shards) ==
    LET present == {i \in 1..Len(shards) : shards[i] # None}
        valid == FirstPresent(shards, rsc.data_shard_count, 1)
    IN  IF Len(shards) < rsc.total_shard_count THEN Err("TooFewShards")
        ELSE IF Len(shards) > rsc.total_shard_count THEN Err("TooManyShards")
        ELSE IF \E i \in present : Len(shards[i][1]) = 0 THEN Err("EmptyShard")
        ELSE IF \E i, j \in present : Len(shards[i][1]) # Len(shards[j][1])
        THEN Err("IncorrectShardSize")
        ELSE IF Cardinality(present) = rsc.total_shard_count THEN Ok(shards)
        ELSE IF Cardinality(present) < rsc.data_shard_count THEN Err("TooFewShardsPresent")
        ELSE LET shard_len == Len(shards[valid[1]][1])
                 sub_matrix == Tuple([k \in 1..Len(valid) |-> rsc.matrix[valid[k]]],
                                     Len(valid))
                 data_decode_matrix == matrix_invert(sub_matrix)[1]
                 sub_shards == Tuple([k \in 1..Len(valid) |-> shards[valid[k]][1]],
                                     Len(valid))
                 data == Tuple([i \in 1..rsc.data_shard_count |->
                                   IF shards[i] # None THEN shards[i][1]
                                   ELSE code_shard(data_decode_matrix[i], sub_shards,
                                                   shard_len)],
                               rsc.data_shard_count)
             IN  Ok(Tuple([i \in 1..rsc.total_shard_count |->
                              IF shards[i] # None THEN shards[i]
                              ELSE IF i <= rsc.data_shard_count THEN Some(data[i])
                              ELSE Some(code_shard(rsc.matrix[i], data, shard_len))],
                          rsc.total_shard_count))

(***************************************************************************)
(* fec.rs                                                                  *)
(***************************************************************************)
FecBlock(block_id, index, total_blocks, data) ==
    [block_id |-> block_id, index |-> index, total_blocks |-> total_blocks, data |-> data]

RsEncoder(data_shards, parity_shards) ==
    [data_shards |-> data_shards, parity_shards |-> parity_shards]

Max(a, b) == IF a >= b THEN a ELSE b

RECURSIVE MaxPayloadLen(_)
MaxPayloadLen(fs) ==
    IF fs = <<>> THEN 0 ELSE Max(Len(Head(fs).payload), MaxPayloadLen(Tail(fs)))

\* RsEncoder::encode_batch
encode_batch(self, fs, redundancy) ==
    LET k == IF redundancy > 0 THEN redundancy ELSE self.parity_shards
        n == Len(fs)
        data_shards == Max(self.data_shards, n)
        shard_len == MaxPayloadLen(fs)
        shards == Tuple([i \in 1..(data_shards + k) |->
                            IF i <= n
                            THEN fs[i].payload \o Zeros(shard_len - Len(fs[i].payload))
                            ELSE Zeros(shard_len)],
                        data_shards + k)
        rsc == ReedSolomon_new(data_shards, k)
        encoded == rs_encode(rsc.val, shards)
    IN  IF n = 0 THEN Ok(<<>>)
        ELSE IF ~rsc.ok THEN Err(<<"InvalidStructure", "invalid RS parameters">>)
        ELSE IF ~encoded.ok THEN Err(<<"InvalidStructure", "RS encode failed">>)
        ELSE Ok(Tuple([i \in 1..(data_shards + k) |->
                          FecBlock(0, i - 1, data_shards + k, encoded.val[i])],
                      data_shards + k))

\* the length of buf without its trailing zeros
RECURSIVE TrimEnd(_, _)
TrimEnd(buf, end) == IF end > 0 /\ buf[end] = 0 THEN TrimEnd(buf, end - 1) ELSE end

\* the last block of the input with the given index and the batch's shard length
PlacedShard(blocks, index, total_blocks, shard_len) ==
    LET hits == {b \in 1..Len(blocks) :
                    /\ blocks[b].index = index
                    /\ blocks[b].index < total_blocks
                    /\ Len(blocks[b].data) = shard_len}
    IN  IF hits = {} THEN None
        ELSE Some(blocks[CHOOSE b \in hits : \A c \in hits : c <= b].data)

\* RsDecoder::decode_batch
decode_batch(blocks, total_frames) ==
    IF blocks = <<>> THEN Err(<<"InvalidStructure", "no blocks">>)
    ELSE LET total_blocks == blocks[1].total_blocks
             shard_len == Len(blocks[1].data)
             data_shards == total_frames
             parity_shards == IF total_blocks >= data_shards
                              THEN total_blocks - data_shards ELSE 0
             rsc == ReedSolomon_new(data_shards, parity_shards)
             shards == Tuple([i \in 1..total_blocks |->
                                 PlacedShard(blocks, i - 1, total_blocks, shard_len)],
                             total_blocks)
             rebuilt == rs_reconstruct(rsc.val, shards)
         IN  IF ~rsc.ok THEN Err(<<"InvalidStructure", "invalid RS parameters">>)
             ELSE IF ~rebuilt.ok THEN Err(<<"InvalidStructure", "RS reconstruct failed">>)
             ELSE Ok(Tuple([i \in 1..total_frames |->
                               LET buf_vec == rebuilt.val[i][1]
                                   payload == SubSeq(buf_vec, 1, TrimEnd(buf_vec, Len(buf_vec)))
                               IN  Frame(FrameHeader(0, ZeroHash, Len(payload), 0),
                                         payload, None)],
                           total_frames))

can_reconstruct(available_blocks, total_frames) == available_blocks >= total_frames

(***************************************************************************)
(* The state machine.  Init is the state before any call; each             *)
(* specification below applies the operations of one component.            *)
(***************************************************************************)
Init ==
    /\ pc = "init"
    /\ hdrs = <<>> /\ stream = <<>> /\ cleanScan = <<>> /\ scanned = <<>>
    /\ decoded = <<>> /\ inserted = <<>>
    /\ frames = <<>> /\ origin = <<>> /\ timeline = <<>>
    /\ fec = <<>> /\ ilv = <<>>

(***************************************************************************)
(* Codec and scanner: a writer appends encode_frame(header, payload) to a  *)
(* stream, frame after frame, each frame chained to the one before; the    *)
(* reader decodes the frame just written, scans the stream, and scans it   *)
(* again after bytes were inserted at a frame boundary.                    *)
(***************************************************************************)
MaxStream == 2

\* flag bytes: the four trailer selections, alone and with the other flags
FlagChoices ==
    {0, HAS_CRC32C, HAS_BLAKE3, HAS_CRC32C + HAS_BLAKE3,
     IS_FIRST + HAS_CRC32C, IS_LAST + HAS_BLAKE3,
     HAS_PREAMBLE, HAS_PREAMBLE + HAS_CRC32C, HAS_SYNC_PREFIX + HAS_BLAKE3,
     IS_SUPERFRAME + HAS_SKIPLIST}

\* a payload that itself holds the first 50 bytes of a frame (marker and header,
\* declaring 55 payload bytes and no trailer)
NestedHeader == FRAME_MARKER \o header_bytes(FrameHeader(9, ZeroHash, 55, 0))

PayloadChoices == {<<>>, <<65>>, NestedHeader}

\* inserted bytes; none holds the marker
GarbageChoices == {<<0>>, <<71, 65, 82, 66, 65, 71, 69>>}

ContainsMarker(bytes) == find_marker(bytes, 0) # None

Last(s) == s[Len(s)]

\* byte offset of the boundary after the k-th encoded frame
RECURSIVE BoundaryOffset(_, _)
BoundaryOffset(hs, k) == IF k = 0 THEN 0 ELSE BoundaryOffset(hs, k - 1) + hs[k].size

Encode(flags, payload) ==
    /\ pc \in {"init", "encoded"}
    /\ Len(hdrs) < MaxStream
    /\ LET prev == IF hdrs = <<>> THEN ZeroHash
                   ELSE compute_hash(Frame(Last(hdrs).header, Last(hdrs).payload, None))
           header == FrameHeader(Len(hdrs) + 1, prev, Len(payload), flags)
           r == encode_frame(header, payload)
       IN  /\ r.ok
           /\ hdrs' = Append(hdrs, [header |-> header, payload |-> payload,
                                    size |-> Len(r.val)])
           /\ stream' = stream \o r.val
           /\ \E build \in Builds : decoded' = decode_frame_from_bytes(r.val, build)
    /\ pc' = "encoded"
    /\ UNCHANGED <<cleanScan, scanned, inserted, linkVars, fec, ilv>>

Scan ==
    /\ pc \in {"encoded", "inserted"}
    /\ \E build \in Builds :
          LET r == scan_stream(stream, build)
          IN  ~r.panicked /\ scanned' = r.val
    /\ pc' = "scanned"
    /\ UNCHANGED <<hdrs, stream, cleanScan, decoded, inserted, linkVars, fec, ilv>>

InsertGarbage(k, g) ==
    /\ pc = "scanned"
    /\ inserted = <<>>
    /\ k \in 1..(Len(hdrs) - 1)
    /\ ~ContainsMarker(g)
    /\ LET at == BoundaryOffset(hdrs, k)
       IN  stream' = Slice(stream, 0, at) \o g \o Slice(stream, at, Len(stream))
    /\ inserted' = g
    /\ cleanScan' = scanned
    /\ pc' = "inserted"
    /\ UNCHANGED <<hdrs, scanned, decoded, linkVars, fec, ilv>>

NextCodec ==
    \/ \E flags \in FlagChoices, payload \in PayloadChoices : Encode(flags, payload)
    \/ Scan
    \/ \E k \in 1..MaxStream, g \in GarbageChoices : InsertGarbage(k, g)

SpecCodec == Init /\ [][NextCodec]_vars

\* the located frames carry the header and payload of the encoded frames, in order
SameFrames(located, hs) ==
    /\ Len(located) = Len(hs)
    /\ \A i \in 1..Len(hs) :
          /\ located[i].frame.header = hs[i].header
          /\ located[i].frame.payload = hs[i].payload

\* C1: decode_frame_from_bytes(encode_frame(header, payload)) succeeds and returns
\* the header and the payload that were encoded, for every valid header (any flags)
\* and every payload of the declared length.
C1_RoundTrip ==
    pc = "encoded" =>
        /\ decoded.ok
        /\ decoded.val.header = Last(hdrs).header
        /\ decoded.val.payload = Last(hdrs).payload

\* C2: scan_stream of a clean stream (encoded frames concatenated with nothing in
\* between) returns exactly one located frame per encoded frame, in order, each with
\* the header and payload that were encoded.
C2_CleanScan ==
    (pc = "scanned" /\ inserted = <<>>) => SameFrames(scanned, hdrs)

\* C7: inserting bytes that do not contain the marker at a boundary between two
\* frames does not reduce the number of frames scan_stream returns, and every frame
\* found before the insertion is still found (same header and payload).
C7_DamageMonotone ==
    (pc = "scanned" /\ inserted # <<>>) =>
        /\ Len(scanned) >= Len(cleanScan)
        /\ \A i \in 1..Len(cleanScan) : \E j \in 1..Len(scanned) :
              /\ scanned[j].frame.header = cleanScan[i].frame.header
              /\ scanned[j].frame.payload = cleanScan[i].frame.payload

(***************************************************************************)
(* Decoder on arbitrary bytes: a buffer is put together from a marker, a   *)
(* version, a declared payload_len, a flag byte and the bytes that follow  *)
(* the header (among them the payload and trailer encode_frame would       *)
(* write), it may be cut short, and each decoder and the scanner are run   *)
(* on it in one of the builds.                                             *)
(***************************************************************************)
\* marker and version: right, a version of the future, a damaged marker
HeadChoices == {<<FRAME_MARKER, PROTOCOL_VERSION>>, <<FRAME_MARKER, PROTOCOL_VERSION + 1>>,
                <<<<68, 85, 82, 0>>, PROTOCOL_VERSION>>}

\* the four bytes of payload_len: 0, 1, 2, the payload limit and one more, the frame
\* limit, 2^31 - 1, 2^32 - 51 (the largest whose frame size fits u32 without a
\* trailer), 2^32 - 50, 2^32 - 1
DeclaredLenChoices ==
    {<<0, 0, 0, 0>>, <<0, 0, 0, 1>>, <<0, 0, 0, 2>>, <<0, 255, 252, 0>>, <<0, 255, 252, 1>>,
     <<1, 0, 0, 0>>, <<127, 255, 255, 255>>, <<255, 255, 255, 205>>,
     <<255, 255, 255, 206>>, <<255, 255, 255, 255>>}

TrailerFlagChoices == {0, HAS_CRC32C, HAS_BLAKE3, HAS_CRC32C + HAS_BLAKE3}

DecoderPayloadChoices == {<<>>, <<7>>, <<7, 9>>}

\* lengths a buffer is cut to
CutChoices == {0, 3, 4, 20, 49, 50, 51, 53}

\* marker, header and payload, then the trailer encode_frame computes over them
WithTrailer(body, flags) == body \o encode_trailer(trailer_type(flags), body)

MakeBuffer(head, len_bytes, flags, payload, with_trailer) ==
    /\ pc = "init"
    /\ LET body == head[1] \o <<head[2]>> \o to_be_bytes(1, 8) \o ZeroHash
                       \o len_bytes \o <<flags>> \o payload
       IN  stream' = IF with_trailer THEN WithTrailer(body, flags) ELSE body
    /\ pc' = "buffer"
    /\ UNCHANGED <<hdrs, cleanScan, scanned, decoded, inserted, linkVars, fec, ilv>>

CutBuffer(n) ==
    /\ pc = "buffer"
    /\ n < Len(stream)
    /\ stream' = Slice(stream, 0, n)
    /\ pc' = "cut"
    /\ UNCHANGED <<hdrs, cleanScan, scanned, decoded, inserted, linkVars, fec, ilv>>

\* whether the u32 size computation of decode_frame is reached and overflows
SizeOverflows(buf) ==
    /\ Len(buf) >= MIN_HEADER_SIZE
    /\ Slice(buf, 0, 4) = FRAME_MARKER
    /\ buf[5] = PROTOCOL_VERSION
    /\ total_frame_size_u32(u32_from_be_bytes(Slice(buf, 45, 49)),
                            trailer_size(trailer_type(buf[50]))).overflow

DecodeBytes(build) ==
    /\ pc \in {"buffer", "cut"}
    /\ decoded' = [build |-> build,
                   from_bytes |-> decode_frame_from_bytes(stream, build),
                   zero_copy |-> decode_frame_from_bytes_zero_copy(stream),
                   scan |-> scan_stream(stream, build),
                   overflow |-> build.std /\ SizeOverflows(stream)]
    /\ pc' = "decoded_bytes"
    /\ UNCHANGED <<hdrs, stream, cleanScan, scanned, inserted, linkVars, fec, ilv>>

NextDecoder ==
    \/ \E head \in HeadChoices, len_bytes \in DeclaredLenChoices,
          flags \in TrailerFlagChoices, payload \in DecoderPayloadChoices,
          with_trailer \in BOOLEAN :
            MakeBuffer(head, len_bytes, flags, payload, with_trailer)
    \/ \E n \in CutChoices : CutBuffer(n)
    \/ \E build \in Builds : DecodeBytes(build)

SpecDecoder == Init /\ [][NextDecoder]_vars

\* C11: decode_frame_from_bytes and scan_stream return a value for every buffer,
\* without aborting, and the size computation 50 + payload_len + trailer size of the
\* decoder does not overflow its integer type
C11_NoPanic ==
    pc = "decoded_bytes" =>
        /\ ~IsPanic(decoded.from_bytes)
        /\ ~decoded.scan.panicked
        /\ ~decoded.overflow

\* the frame a buffer declares: marker, version and size are valid
DeclaresFrame(buf) ==
    /\ Len(buf) >= MIN_HEADER_SIZE
    /\ Slice(buf, 0, 4) = FRAME_MARKER
    /\ buf[5] = PROTOCOL_VERSION
    /\ ~u32_gt(u32_from_be_bytes(Slice(buf, 45, 49)), MAX_PAYLOAD_SIZE)

DeclaredSize(buf) ==
    MIN_HEADER_SIZE + u32_as_usize(u32_from_be_bytes(Slice(buf, 45, 49)))
        + trailer_size(trailer_type(buf[50]))

ShorterThanDeclared(buf) ==
    \/ Len(buf) < MIN_HEADER_SIZE
    \/ DeclaresFrame(buf) /\ Len(buf) < DeclaredSize(buf)

IsIncompleteFrame(r, actual) ==
    /\ ~IsPanic(r)
    /\ ~r.ok
    /\ r.err[1] = "IncompleteFrame"
    /\ r.err[3] = actual

\* C12: on a buffer shorter than the frame it declares, decode_frame_from_bytes and
\* decode_frame_from_bytes_zero_copy both return IncompleteFrame with actual = the
\* length of the buffer
C12_Lookahead ==
    (pc = "decoded_bytes" /\ ShorterThanDeclared(stream)) =>
        /\ IsIncompleteFrame(decoded.from_bytes, Len(stream))
        /\ IsIncompleteFrame(decoded.zero_copy, Len(stream))

(***************************************************************************)
(* Encoder and FrameBuilder: a caller either hands a header and a payload  *)
(* to encode_frame / encode_frame_signed, or makes a FrameBuilder, calls   *)
(* its methods in some order and builds.                                   *)
(***************************************************************************)
MaxCalls == 3

\* frame ids: 1, and 0x44555250, whose big-endian bytes end with 'D' 'U' 'R' 'P'
FrameIdChoices == {1, 1146442320}

\* a non-zero hash
OtherHash == compute_blake3(<<1>>)

HashChoices == {ZeroHash, OtherHash}

\* declared payload lengths: small ones, the payload limit and one more
PayloadLenChoices == {0, 1, 2, MAX_PAYLOAD_SIZE, MAX_PAYLOAD_SIZE + 1}

EncoderFlagChoices == {0, HAS_CRC32C, HAS_BLAKE3, HAS_CRC32C + HAS_BLAKE3, HAS_PREAMBLE}

EncoderPayloadChoices == {<<>>, <<7>>, <<7, 9>>}

SigningKeyChoices == {Zeros(31) \o <<1>>, Zeros(31) \o <<2>>}

EncodeFrame(version, frame_id, prev_hash, payload_len, flags, payload) ==
    /\ pc = "init"
    /\ LET header == [FrameHeader(frame_id, prev_hash, payload_len, flags)
                        EXCEPT !.version = version]
       IN  /\ hdrs' = [header |-> header, payload |-> payload, key |-> None]
           /\ stream' = encode_frame(header, payload)
           /\ decoded' = stream'
    /\ pc' = "encode_frame"
    /\ UNCHANGED <<cleanScan, scanned, inserted, linkVars, fec, ilv>>

EncodeFrameSigned(frame_id, payload_len, flags, payload, signing_key) ==
    /\ pc = "init"
    /\ LET header == FrameHeader(frame_id, ZeroHash, payload_len, flags)
       IN  /\ hdrs' = [header |-> header, payload |-> payload, key |-> Some(signing_key)]
           /\ stream' = encode_frame_signed(header, payload, signing_key)
           /\ decoded' = encode_frame(header, payload)
    /\ pc' = "encode_frame_signed"
    /\ UNCHANGED <<cleanScan, scanned, inserted, linkVars, fec, ilv>>

\* the builder, with what the caller did to it: whether mark_first was called, the key
\* handed to sign_with_ed25519, the number of calls
NewBuilder(frame_id) ==
    /\ pc = "init"
    /\ hdrs' = [self |-> FrameBuilder_new(frame_id), marked_first |-> FALSE,
                key |-> None, calls |-> 0]
    /\ pc' = "builder"
    /\ UNCHANGED <<stream, cleanScan, scanned, decoded, inserted, linkVars, fec, ilv>>

BuilderCall(next_self, marks_first, key) ==
    /\ pc = "builder"
    /\ hdrs.calls < MaxCalls
    /\ hdrs' = [self |-> next_self, marked_first |-> hdrs.marked_first \/ marks_first,
                key |-> key, calls |-> hdrs.calls + 1]
    /\ pc' = "builder"
    /\ UNCHANGED <<stream, cleanScan, scanned, decoded, inserted, linkVars, fec, ilv>>

CallPrevHash(hash) ==
    pc = "builder" /\ BuilderCall(FrameBuilder_prev_hash(hdrs.self, hash), FALSE, hdrs.key)

CallPayload(bytes) ==
    pc = "builder" /\ BuilderCall(FrameBuilder_payload(hdrs.self, bytes), FALSE, hdrs.key)

CallWithCrc32c ==
    pc = "builder" /\ BuilderCall(FrameBuilder_with_crc32c(hdrs.self), FALSE, hdrs.key)

CallWithBlake3 ==
    pc = "builder" /\ BuilderCall(FrameBuilder_with_blake3(hdrs.self), FALSE, hdrs.key)

CallMarkFirst ==
    pc = "builder" /\ BuilderCall(FrameBuilder_mark_first(hdrs.self), TRUE, hdrs.key)

CallMarkLast ==
    pc = "builder" /\ BuilderCall(FrameBuilder_mark_last(hdrs.self), FALSE, hdrs.key)

CallAsSuperframe ==
    pc = "builder" /\ BuilderCall(FrameBuilder_as_superframe(hdrs.self), FALSE, hdrs.key)

CallWithSkiplist ==
    pc = "builder" /\ BuilderCall(FrameBuilder_with_skiplist(hdrs.self), FALSE, hdrs.key)

CallWithBlake3Signature ==
    pc = "builder"
        /\ BuilderCall(FrameBuilder_with_blake3_signature(hdrs.self), FALSE, hdrs.key)

CallSignWithEd25519(sk) ==
    pc = "builder"
        /\ BuilderCall(FrameBuilder_sign_with_ed25519(hdrs.self, sk), FALSE, Some(sk))

Build ==
    /\ pc = "builder"
    /\ stream' = FrameBuilder_build(hdrs.self)
    /\ pc' = "built"
    /\ UNCHANGED <<hdrs, cleanScan, scanned, decoded, inserted, linkVars, fec, ilv>>

BuildStruct ==
    /\ pc = "builder"
    /\ stream' = FrameBuilder_build_struct(hdrs.self)
    /\ pc' = "built_struct"
    /\ UNCHANGED <<hdrs, cleanScan, scanned, decoded, inserted, linkVars, fec, ilv>>

NextEncoder ==
    \/ \E version \in {PROTOCOL_VERSION, PROTOCOL_VERSION + 1}, frame_id \in FrameIdChoices,
          prev_hash \in HashChoices, payload_len \in PayloadLenChoices,
          flags \in EncoderFlagChoices, payload \in EncoderPayloadChoices :
            EncodeFrame(version, frame_id, prev_hash, payload_len, flags, payload)
    \/ \E frame_id \in FrameIdChoices, payload_len \in PayloadLenChoices,
          flags \in EncoderFlagChoices, payload \in EncoderPayloadChoices,
          signing_key \in SigningKeyChoices :
            EncodeFrameSigned(frame_id, payload_len, flags, payload, signing_key)
    \/ \E frame_id \in FrameIdChoices : NewBuilder(frame_id)
    \/ \E hash \in HashChoices : CallPrevHash(hash)
    \/ \E bytes \in EncoderPayloadChoices : CallPayload(bytes)
    \/ CallWithCrc32c
    \/ CallWithBlake3
    \/ CallMarkFirst
    \/ CallMarkLast
    \/ CallAsSuperframe
    \/ CallWithSkiplist
    \/ CallWithBlake3Signature
    \/ \E sk \in SigningKeyChoices : CallSignWithEd25519(sk)
    \/ Build
    \/ BuildStruct

SpecEncoder == Init /\ [][NextEncoder]_vars

IsErr(r, kind) == ~r.ok /\ r.err[1] = kind

BuiltHeader ==
    IF pc = "built_struct" THEN stream.val.header
    ELSE [flags |-> stream.val[MIN_HEADER_SIZE],
          prev_hash |-> Slice(stream.val, 4 + 1 + 8, 4 + 1 + 8 + BLAKE3_HASH_SIZE)]

\* C14: a frame built after a sequence of builder calls that includes mark_first has
\* the IS_FIRST flag and a prev_hash of 32 zero bytes
C14_MarkFirst ==
    (pc \in {"built", "built_struct"} /\ hdrs.marked_first /\ stream.ok) =>
        /\ HasFlag(BuiltHeader.flags, IS_FIRST)
        /\ BuiltHeader.prev_hash = ZeroHash

\* the 46 header bytes of an encoding, after the optional prefix and the marker
WrittenHeader(header, encoded) ==
    LET prefix_len == (IF HasFlag(header.flags, HAS_PREAMBLE) THEN MIN_PREAMBLE_LEN ELSE 0)
                        + (IF HasFlag(header.flags, HAS_SYNC_PREFIX)
                           THEN Len(ROBUST_SYNC_WORD) ELSE 0)
    IN  Slice(encoded, prefix_len + 4, prefix_len + MIN_HEADER_SIZE)

\* C15: the 46 header bytes encode_frame writes for a header accepted by validate do
\* not contain the marker 'DURP'
C15_NoMarkerInHeader ==
    (pc = "encode_frame" /\ validate(hdrs.header).ok /\ stream.ok) =>
        ~ContainsMarker(WrittenHeader(hdrs.header, stream.val))

LastBytes(bytes, n) == Slice(bytes, Len(bytes) - n, Len(bytes))

\* what the caller of an encoding operation passed: header, payload and key
SignedInput ==
    IF pc = "built"
    THEN [header |-> FrameHeader(hdrs.self.frame_id, hdrs.self.prev_hash,
                                 Len(hdrs.self.payload), hdrs.self.flags),
          payload |-> hdrs.self.payload, key |-> hdrs.key]
    ELSE [header |-> hdrs.header, payload |-> hdrs.payload, key |-> hdrs.key]

\* C20: in an encoding with the combined trailer, the last 64 bytes are the Ed25519
\* signature over marker, header and payload by the key supplied (to
\* encode_frame_signed or to FrameBuilder::sign_with_ed25519) and the other bytes are
\* those of the unsigned encoding; without a key they are 64 zero bytes
C20_SignatureBytes ==
    (pc \in {"encode_frame", "encode_frame_signed", "built"} /\ stream.ok
        /\ trailer_type(SignedInput.header.flags) = "Blake3WithEd25519Sig") =>
        LET in == SignedInput
            unsigned == encode_frame(in.header, in.payload).val
            msg == FRAME_MARKER \o header_bytes(in.header) \o in.payload
        IN  /\ Len(stream.val) = Len(unsigned)
            /\ Slice(stream.val, 0, Len(unsigned) - SIG_SIZE)
                 = Slice(unsigned, 0, Len(unsigned) - SIG_SIZE)
            /\ LastBytes(stream.val, SIG_SIZE)
                 = IF in.key = None THEN Zeros(SIG_SIZE)
                   ELSE ed25519_sign(in.key[1], msg)

(***************************************************************************)
(* Linker: a caller collects frames in a vector, in any order; a frame of  *)
(* a chain may be lost before the vector is linked; link_frames is called  *)
(* once on the vector.                                                     *)
(***************************************************************************)
MaxFrames == 3

MaxId == 3

\* a prev_hash that is the chain hash of no frame of the input
UnknownHash == compute_blake3(<<>>)

RECURSIVE HashesOf(_)
HashesOf(fs) == IF fs = <<>> THEN <<>> ELSE <<compute_hash(Head(fs))>> \o HashesOf(Tail(fs))

InsertAt(s, pos, x) == SubSeq(s, 1, pos) \o <<x>> \o SubSeq(s, pos + 1, Len(s))

RemoveAt(s, k) == SubSeq(s, 1, k - 1) \o SubSeq(s, k + 1, Len(s))

\* the frames of fs in chain order when fs is a permutation of a hash-linked chain
\* of distinct frames, <<>> when it is not
RECURSIVE FollowChain(_, _, _, _)
FollowChain(fs, hashes, chain, last) ==
    LET succ == {i \in 1..Len(fs) : fs[i].header.prev_hash = hashes[last]}
    IN  IF Len(chain) = Len(fs) THEN chain
        ELSE IF Cardinality(succ) # 1 THEN <<>>
        ELSE LET i == CHOOSE j \in succ : TRUE
             IN  IF \E j \in 1..Len(chain) : chain[j] = fs[i] THEN <<>>
                 ELSE FollowChain(fs, hashes, Append(chain, fs[i]), i)

ChainOrder(fs) ==
    LET hashes == HashesOf(fs)
        heads == {i \in 1..Len(fs) :
                     \A j \in 1..Len(fs) : fs[i].header.prev_hash # hashes[j]}
    IN  IF fs = <<>> \/ Cardinality(heads) # 1 THEN <<>>
        ELSE LET h == CHOOSE i \in heads : TRUE
             IN  FollowChain(fs, hashes, <<fs[h]>>, h)

\* the prev_hash of a new frame: that of a head, of a frame whose predecessor is
\* not in the input, or the chain hash of a frame of the input
PrevHashChoices(fs) == {ZeroHash, UnknownHash} \cup Range(HashesOf(fs))

PushFrame(id, pos) ==
    /\ pc \in {"init", "building"}
    /\ Len(frames) < MaxFrames
    /\ pos \in 0..Len(frames)
    /\ \E prev_hash \in PrevHashChoices(frames) :
           frames' = InsertAt(frames, pos,
                              Frame(FrameHeader(id, prev_hash, 0, 0), <<>>, None))
    /\ pc' = "building"
    /\ UNCHANGED <<codecVars, origin, timeline, fec, ilv>>

\* one frame of a chain of at least three frames is lost
RemoveFrame ==
    /\ pc = "building"
    /\ Len(frames) >= 3
    /\ LET chain == ChainOrder(frames)
       IN  /\ chain # <<>>
           /\ origin' = chain
    /\ \E k \in 1..Len(frames) : frames' = RemoveAt(frames, k)
    /\ pc' = "removed"
    /\ UNCHANGED <<codecVars, timeline, fec, ilv>>

Link ==
    /\ pc \in {"init", "building", "removed"}
    /\ timeline' = link_frames(frames)
    /\ pc' = "linked"
    /\ UNCHANGED <<codecVars, frames, origin, fec, ilv>>

NextLinker ==
    \/ \E id \in 1..MaxId, pos \in 0..MaxFrames : PushFrame(id, pos)
    \/ RemoveFrame
    \/ Link

SpecLinker == Init /\ [][NextLinker]_vars

\* the position in the chain of the frame that was removed
RemovedIndex == CHOOSE r \in 1..Len(origin) : origin[r] \notin Range(frames)

\* the timeline has exactly one gap, between the frames with ids before and after
OneGap(tl, before, after) ==
    /\ Len(tl.gaps) = 1
    /\ tl.gaps[1].before = before
    /\ tl.gaps[1].after = after

\* frame_ids increase by one from each frame of the chain to its successor
ConsecutiveIds(chain) ==
    \A i \in 1..(Len(chain) - 1) :
        chain[i + 1].header.frame_id = chain[i].header.frame_id + 1

\* the vectors that are permutations of s
PermutationsOf(s) ==
    LET n == Len(s)
        bij == {p \in [1..n -> 1..n] : \A i, j \in 1..n : p[i] = p[j] => i = j}
    IN  {[i \in 1..n |-> s[p[i]]] : p \in bij}

\* C3: link_frames on any permutation of a hash-linked chain (whatever the
\* frame_ids, whether or not the head has prev_hash zero) returns the frames in
\* chain order with no gaps and no orphans.
C3_LinkerCorrectness ==
    (pc = "linked" /\ origin = <<>> /\ ChainOrder(frames) # <<>>)
        => /\ timeline.frames = ChainOrder(frames)
           /\ timeline.gaps = <<>>
           /\ timeline.orphans = <<>>

C8_Stable ==
    pc = "linked" => \A q \in PermutationsOf(frames) : link_frames(q) = timeline

\* C9: for every two input frames p and s with s.prev_hash = chain hash of p, s
\* being the only input frame with that prev_hash, s comes immediately after p in
\* timeline.frames and no gap is recorded between them.
C9_Maximal ==
    pc = "linked" =>
        \A p, s \in 1..Len(frames) :
            (/\ p # s
             /\ frames[s].header.prev_hash = compute_hash(frames[p])
             /\ \A t \in 1..Len(frames) :
                    frames[t].header.prev_hash = frames[s].header.prev_hash
                        => frames[t] = frames[s])
                => /\ \E i \in 1..(Len(timeline.frames) - 1) :
                          /\ timeline.frames[i] = frames[p]
                          /\ timeline.frames[i + 1] = frames[s]
                   /\ \A g \in 1..Len(timeline.gaps) :
                          ~(/\ timeline.gaps[g].before = frames[p].header.frame_id
                            /\ timeline.gaps[g].after = frames[s].header.frame_id)

MaxBuf == 4

MaxGroup == 3

MaxShardLen == 2

ByteChoices == {0, 1, 255}

RECURSIVE SumLen(_)
SumLen(ss) == IF ss = <<>> THEN 0 ELSE Len(Head(ss)) + SumLen(Tail(ss))

PutByte(b) ==
    /\ pc \in {"init", "buffered"}
    /\ LET input == IF pc = "init" THEN <<>> ELSE ilv.input
       IN  /\ Len(input) < MaxBuf
           /\ ilv' = [input |-> Append(input, b)]
    /\ pc' = "buffered"
    /\ UNCHANGED <<codecVars, linkVars, fec>>

Interleave(group, shard_len) ==
    /\ pc \in {"init", "buffered"}
    /\ LET input == IF pc = "init" THEN <<>> ELSE ilv.input
           params == InterleaveParams(group, shard_len)
       IN  ilv' = [input |-> input, params |-> params,
                   stripes |-> interleave_bytes(input, params)]
    /\ pc' = "interleaved"
    /\ UNCHANGED <<codecVars, linkVars, fec>>

Deinterleave ==
    /\ pc = "interleaved"
    /\ ~ilv.stripes.panicked
    /\ ilv' = [input |-> ilv.input, params |-> ilv.params, stripes |-> ilv.stripes,
               output |-> deinterleave_bytes(ilv.stripes.val, ilv.params)]
    /\ pc' = "deinterleaved"
    /\ UNCHANGED <<codecVars, linkVars, fec>>

NextInterleave ==
    \/ \E b \in ByteChoices : PutByte(b)
    \/ \E group \in 0..MaxGroup, shard_len \in 0..MaxShardLen : Interleave(group, shard_len)
    \/ Deinterleave

SpecInterleave == Init /\ [][NextInterleave]_vars

\* C6: for every buffer b (the empty one and lengths that are no multiple of
\* G*L included) and every G > 0, L > 0, interleave_bytes(b, (G, L)) is exactly G
\* stripes whose lengths sum to len(b), and deinterleave_bytes of them is b.
C6_InterleaveInverse ==
    /\ (pc \in {"interleaved", "deinterleaved"}
            /\ ilv.params.group > 0 /\ ilv.params.shard_len > 0)
           => /\ ~ilv.stripes.panicked
              /\ Len(ilv.stripes.val) = ilv.params.group
              /\ SumLen(ilv.stripes.val) = Len(ilv.input)
    /\ pc = "deinterleaved"
           => /\ ~ilv.output.panicked
              /\ ilv.output.val = ilv.input

C6_Witness ==
    /\ pc = "deinterleaved"
    /\ ilv.params.group = 2 /\ ilv.params.shard_len = 2
    /\ Len(ilv.input) = 3
    /\ ilv.input[1] # ilv.input[3]
    /\ ilv.output.val = ilv.input

(***************************************************************************)
(* Reed-Solomon layer: a writer collects the frames of a block, encodes    *)
(* the block with RsEncoder::encode_batch, some of the blocks are lost,    *)
(* and a reader runs RsDecoder::decode_batch on the blocks that are left.  *)
(***************************************************************************)
MaxData == 2

MaxParity == 2

FecPayloadChoices == {<<>>, <<65>>, <<66, 0>>}

\* the frames collected so far
FecFrames == IF pc = "init" THEN <<>> ELSE fec.frames

AddFrame(payload) ==
    /\ pc \in {"init", "batching"}
    /\ Len(FecFrames) < MaxData
    /\ fec' = [frames |-> Append(FecFrames,
                   Frame(FrameHeader(Len(FecFrames), ZeroHash, Len(payload), 0),
                         payload, None))]
    /\ pc' = "batching"
    /\ UNCHANGED <<codecVars, linkVars, ilv>>

EncodeBatch(data_shards, parity_shards, redundancy) ==
    /\ pc \in {"init", "batching"}
    /\ LET blocks == encode_batch(RsEncoder(data_shards, parity_shards),
                                  FecFrames, redundancy)
       IN  fec' = [frames |-> FecFrames,
                   k |-> IF redundancy > 0 THEN redundancy ELSE parity_shards,
                   blocks |-> blocks,
                   avail |-> IF blocks.ok THEN blocks.val ELSE <<>>]
    /\ pc' = "fec_encoded"
    /\ UNCHANGED <<codecVars, linkVars, ilv>>

\* one of the blocks is lost; at most k of them are
DropBlock(i) ==
    /\ pc = "fec_encoded"
    /\ fec.blocks.ok
    /\ i \in 1..Len(fec.avail)
    /\ Len(fec.blocks.val) - Len(fec.avail) < fec.k
    /\ fec' = [fec EXCEPT !.avail = RemoveAt(fec.avail, i)]
    /\ pc' = "fec_encoded"
    /\ UNCHANGED <<codecVars, linkVars, ilv>>

DecodeBatch ==
    /\ pc = "fec_encoded"
    /\ fec' = [frames |-> fec.frames, k |-> fec.k, blocks |-> fec.blocks,
               avail |-> fec.avail,
               recovered |-> decode_batch(fec.avail, Len(fec.frames))]
    /\ pc' = "fec_decoded"
    /\ UNCHANGED <<codecVars, linkVars, ilv>>

NextFec ==
    \/ \E payload \in FecPayloadChoices : AddFrame(payload)
    \/ \E data_shards \in {1, MaxData + 1}, parity_shards \in 0..MaxParity,
          redundancy \in {0, 1} : EncodeBatch(data_shards, parity_shards, redundancy)
    \/ \E i \in 1..(MaxData + 1 + MaxParity) : DropBlock(i)
    \/ DecodeBatch

SpecFec == Init /\ [][NextFec]_vars

\* buf without its trailing zeros
Trimmed(buf) == SubSeq(buf, 1, TrimEnd(buf, Len(buf)))

\* C5: for a block of N frames encoded by encode_batch with K >= 1 parity shards
\* (N + K blocks, N + K <= 255), decode_batch on what is left after any K of the
\* N + K blocks are removed returns N frames, in input order, whose payloads are
\* the original payloads up to trailing zeros.
C5_RsRecovery ==
    /\ (pc \in {"fec_encoded", "fec_decoded"} /\ fec.frames # <<>> /\ fec.k >= 1)
           => fec.blocks.ok
    /\ (/\ pc = "fec_decoded"
        /\ fec.blocks.ok
        /\ fec.frames # <<>>
        /\ fec.k >= 1
        /\ Len(fec.blocks.val) = Len(fec.frames) + fec.k
        /\ Len(fec.avail) = Len(fec.frames))
           => /\ fec.recovered.ok
              /\ Len(fec.recovered.val) = Len(fec.frames)
              /\ \A i \in 1..Len(fec.frames) :
                     fec.recovered.val[i].payload = Trimmed(fec.frames[i].payload)

(***************************************************************************)
(* durapack-cli, commands/pack.rs: execute_ext.  The payloads are the JSON *)
(* values of the input, each given by the bytes serde_json::to_vec writes  *)
(* for it.  The sidecar is a JSON array of objects; an object is a         *)
(* function from its keys to its values.                                   *)
(***************************************************************************)
FecIndexEntry(block_start_id, data, parity, parity_frame_ids) ==
    [block_start_id |-> block_start_id, data |-> data, parity |-> parity,
     parity_frame_ids |-> parity_frame_ids]

\* #[derive(Serialize)]: one key per field, named as the field
to_json(entry) ==
    ("block_start_id" :> entry.block_start_id) @@ ("data" :> entry.data)
        @@ ("parity" :> entry.parity) @@ ("parity_frame_ids" :> entry.parity_frame_ids)

RECURSIVE to_json_array(_)
to_json_array(entries) ==
    IF entries = <<>> THEN <<>> ELSE <<to_json(Head(entries))>> \o to_json_array(Tail(entries))

encode_frame_struct(frame) == encode_frame(frame.header, frame.payload)

encode_frame_struct_signed(frame, signing_key) ==
    encode_frame_signed(frame.header, frame.payload, signing_key)

\* the trailer selection of pack: signature, BLAKE3 or CRC32C
pack_trailer(builder, opts) ==
    IF opts.use_sig THEN FrameBuilder_with_blake3_signature(builder)
    ELSE IF opts.use_blake3 THEN FrameBuilder_with_blake3(builder)
    ELSE FrameBuilder_with_crc32c(builder)

pack_encode(frame, opts) ==
    IF opts.signing_key # None THEN encode_frame_struct_signed(frame, opts.signing_key[1])
    ELSE encode_frame_struct(frame)

\* a faulty id for a parity frame: the id of the data frame before it
parity_frame_id_reused(next_frame_id) == next_frame_id

\* FrameBuilder::new(next_frame_id + 1)
parity_frame_id(next_frame_id) == next_frame_id + 1

\* the loop over the parity blocks of one block of data frames
RECURSIVE pack_parity(_, _, _, _)
pack_parity(st, parity_blocks, parity_ids, opts) ==
    IF parity_blocks = <<>> THEN [st |-> st, parity_ids |-> parity_ids]
    ELSE
      LET parity_frame ==
              FrameBuilder_build_struct(
                  pack_trailer(
                      FrameBuilder_prev_hash(
                          FrameBuilder_payload(
                              FrameBuilder_new(parity_frame_id(st.next_frame_id)),
                              Head(parity_blocks).data),
                          st.prev_hash),
                      opts))
          failed(e) == [st |-> [st EXCEPT !.err = Some(e)], parity_ids |-> parity_ids]
          written(enc_bytes) ==
              IF ~enc_bytes.ok THEN failed(enc_bytes.err)
              ELSE pack_parity([st EXCEPT !.prev_hash = compute_hash(parity_frame.val),
                                          !.output_data = @ \o enc_bytes.val,
                                          !.next_frame_id = @ + 1],
                               Tail(parity_blocks),
                               Append(parity_ids, parity_frame.val.header.frame_id), opts)
      IN  IF ~parity_frame.ok THEN failed(parity_frame.err)
          ELSE written(pack_encode(parity_frame.val, opts))

\* a full block: blocks is the result of encode_batch on it
pack_block_parity(st, blocks, frame_id, n, k, opts) ==
    IF ~blocks.ok THEN [st EXCEPT !.err = Some(blocks.err)]
    ELSE
      LET recorded(done) ==
              IF done.st.err # None THEN done.st
              ELSE [done.st EXCEPT
                      !.fec_index = Append(@, FecIndexEntry(frame_id + 1 - n, n, k,
                                                            done.parity_ids)),
                      !.block_frames = <<>>]
      IN  recorded(pack_parity(st, SubSeq(blocks.val, n + 1, Len(blocks.val)), <<>>, opts))

\* the FEC block accumulation after a data frame was written
pack_block(st, frame_struct, frame_id, fec_rs, opts) ==
    IF fec_rs = None THEN st
    ELSE
      LET n == fec_rs[1][1]
          k == fec_rs[1][2]
          block_frames == Append(st.block_frames, frame_struct)
      IN  IF Len(block_frames) # n THEN [st EXCEPT !.block_frames = block_frames]
          ELSE pack_block_parity(st, encode_batch(RsEncoder(n, k), block_frames, 0),
                                 frame_id, n, k, opts)

\* a data frame built: encoded is the result of encoding it
pack_frame(st, frame_struct, encoded, fec_rs, opts) ==
    IF ~encoded.ok THEN [st EXCEPT !.err = Some(encoded.err)]
    ELSE
      LET counted(after) ==
              IF after.err # None THEN after ELSE [after EXCEPT !.next_frame_id = @ + 1]
      IN  counted(pack_block([st EXCEPT !.prev_hash = compute_hash(frame_struct),
                                        !.output_data = @ \o encoded.val],
                             frame_struct, st.next_frame_id, fec_rs, opts))

\* one pass of the loop over the payloads
pack_payload(st, payload_bytes, start_id, fec_rs, opts) ==
    LET frame_id == st.next_frame_id
        builder == FrameBuilder_prev_hash(
                       FrameBuilder_payload(FrameBuilder_new(frame_id), payload_bytes),
                       st.prev_hash)
        marked == IF frame_id = start_id THEN FrameBuilder_mark_first(builder) ELSE builder
        frame_struct == FrameBuilder_build_struct(pack_trailer(marked, opts))
    IN  IF ~frame_struct.ok THEN [st EXCEPT !.err = Some(frame_struct.err)]
        ELSE pack_frame(st, frame_struct.val, pack_encode(frame_struct.val, opts),
                        fec_rs, opts)

RECURSIVE pack_loop(_, _, _, _, _)
pack_loop(st, payloads, start_id, fec_rs, opts) ==
    IF payloads = <<>> \/ st.err # None THEN st
    ELSE pack_loop(pack_payload(st, Head(payloads), start_id, fec_rs, opts),
                   Tail(payloads), start_id, fec_rs, opts)

\* the result, the bytes written to the output and the sidecar written (None: not
\* written); an error returns before anything is written
execute_ext(payloads, start_id, fec_rs, opts) ==
    LET finished(st) ==
            IF st.err # None
            THEN [result |-> Err(st.err[1]), output |-> None, sidecar |-> None]
            ELSE [result |-> Ok(TRUE), output |-> Some(st.output_data),
                  sidecar |-> IF fec_rs = None THEN None
                              ELSE Some(to_json_array(st.fec_index))]
    IN  finished(pack_loop([output_data |-> <<>>, prev_hash |-> ZeroHash,
                            block_frames |-> <<>>, next_frame_id |-> start_id,
                            fec_index |-> <<>>, err |-> None],
                           payloads, start_id, fec_rs, opts))

(***************************************************************************)
(* The sidecar readers: #[derive(Deserialize)] on a struct accepts a JSON  *)
(* object that has every field of the struct as a key (other keys are      *)
(* ignored) and fails with "missing field" otherwise.                      *)
(***************************************************************************)
from_json(fields, object) ==
    IF fields \subseteq DOMAIN object THEN Ok([k \in fields |-> object[k]])
    ELSE Err(<<"missing field", CHOOSE k \in fields : k \notin DOMAIN object>>)

RECURSIVE from_json_array(_, _)
from_json_array(fields, array) ==
    IF array = <<>> THEN Ok(<<>>)
    ELSE LET both(first, rest) ==
                 IF ~first.ok THEN first
                 ELSE IF ~rest.ok THEN rest
                 ELSE Ok(<<first.val>> \o rest.val)
         IN  both(from_json(fields, Head(array)), from_json_array(fields, Tail(array)))

\* timeline.rs: struct FecIndexEntry { block_start_id, data, parity, parity_frame_ids }
timeline_read_fec_index(sidecar) ==
    LET context(entries) ==
            IF entries.ok THEN entries ELSE Err(<<"Invalid FEC index JSON", entries.err>>)
    IN  context(from_json_array({"block_start_id", "data", "parity", "parity_frame_ids"},
                                sidecar))

\* verify.rs: struct FecIndexEntry { block_start_id, data, parity, _parity_frame_ids }
verify_read_fec_index(sidecar) ==
    LET context(entries) ==
            IF entries.ok THEN entries ELSE Err(<<"Invalid FEC index JSON", entries.err>>)
    IN  context(from_json_array({"block_start_id", "data", "parity", "_parity_frame_ids"},
                                sidecar))

(***************************************************************************)
(* Packing: payloads are collected, packed with or without RS(N, K), and   *)
(* the sidecar is read back by timeline and by verify --rs-repair; a       *)
(* sidecar of an older writer stores the parity list under the legacy key. *)
(***************************************************************************)
MaxPayloads == 3

\* the installed binary: std, release profile
CliBuild == [std |-> TRUE, overflow_checks |-> FALSE]

\* serde_json::to_vec of the values 1 and []
JsonPayloadChoices == {<<49>>, <<91, 93>>}

\* use_blake3, use_sig and the key read from sign_key_path
Crc32cOptions == [use_blake3 |-> FALSE, use_sig |-> FALSE, signing_key |-> None]

Blake3Options == [use_blake3 |-> TRUE, use_sig |-> FALSE, signing_key |-> None]

SignedOptions ==
    [use_blake3 |-> FALSE, use_sig |-> TRUE, signing_key |-> Some(Zeros(31) \o <<1>>)]

\* the runs of pack: a start id with a trailer selection
PackRuns == {<<1, Crc32cOptions>>, <<7, Blake3Options>>, <<7, SignedOptions>>}

FecRsChoices == {None} \cup {Some(<<n, k>>) : n \in 1..MaxData, k \in 0..MaxParity}

AddPayload(payload_bytes) ==
    /\ pc \in {"init", "payloads"}
    /\ Len(hdrs) < MaxPayloads
    /\ hdrs' = Append(hdrs, payload_bytes)
    /\ pc' = "payloads"
    /\ UNCHANGED <<stream, cleanScan, scanned, decoded, inserted, linkVars, fec, ilv>>

Pack(start_id, fec_rs, opts) ==
    /\ pc \in {"init", "payloads"}
    /\ \E r \in {execute_ext(hdrs, start_id, fec_rs, opts)} :
           /\ r.result.ok
           /\ stream' = r.output[1]
           /\ \E located \in {scan_stream(r.output[1], CliBuild)} :
                 /\ ~located.panicked
                 /\ scanned' = located.val
           /\ fec' = [start_id |-> start_id, fec_rs |-> fec_rs, opts |-> opts,
                      sidecar |-> r.sidecar, legacy |-> FALSE]
    /\ pc' = "packed"
    /\ UNCHANGED <<hdrs, cleanScan, decoded, inserted, linkVars, ilv>>

\* the key parity_frame_ids of an entry renamed to _parity_frame_ids
legacy_entry(object) ==
    [k \in (DOMAIN object \ {"parity_frame_ids"}) \cup {"_parity_frame_ids"} |->
        IF k = "_parity_frame_ids" THEN object["parity_frame_ids"] ELSE object[k]]

LegacySidecar ==
    /\ pc = "packed"
    /\ fec.sidecar # None
    /\ ~fec.legacy
    /\ fec' = [fec EXCEPT !.legacy = TRUE,
                          !.sidecar = Some([i \in 1..Len(@[1]) |-> legacy_entry(@[1][i])])]
    /\ pc' = "packed"
    /\ UNCHANGED <<codecVars, linkVars, ilv>>

ReadSidecar(reader) ==
    /\ pc = "packed"
    /\ fec.sidecar # None
    /\ decoded' = [reader |-> reader,
                   entries |-> IF reader = "timeline"
                               THEN timeline_read_fec_index(fec.sidecar[1])
                               ELSE verify_read_fec_index(fec.sidecar[1])]
    /\ pc' = "sidecar_read"
    /\ UNCHANGED <<hdrs, stream, cleanScan, scanned, inserted, linkVars, fec, ilv>>

NextPack ==
    \/ \E payload_bytes \in JsonPayloadChoices : AddPayload(payload_bytes)
    \/ \E run \in PackRuns, fec_rs \in FecRsChoices : Pack(run[1], fec_rs, run[2])
    \/ LegacySidecar
    \/ \E reader \in {"timeline", "verify"} : ReadSidecar(reader)

SpecPack == Init /\ [][NextPack]_vars

\* whether the i-th frame of the output (from 1) is a data frame, and which payload
\* it carries, in a stream where k parity frames follow every n-th data frame
IsDataPosition(i, n, k) == (i - 1) % (n + k) < n

DataIndex(i, n, k) == ((i - 1) \div (n + k)) * n + ((i - 1) % (n + k)) + 1

\* C17: in the stream written by pack with RS(N, K), K parity frames follow every
\* N-th data frame, the frames in output order carry the ids start_id, start_id + 1,
\* ... without repeat or hole, the first frame has prev_hash zero and every later
\* frame's prev_hash is the chain hash of the frame before it
C17_PackOneChain ==
    (pc = "packed" /\ fec.fec_rs # None) =>
        LET n == fec.fec_rs[1][1]
            k == fec.fec_rs[1][2]
            total == Len(hdrs) + k * (Len(hdrs) \div n)
        IN  /\ Len(scanned) = total
            /\ \A i \in 1..Len(scanned) :
                  /\ scanned[i].frame.header.frame_id = fec.start_id + i - 1
                  /\ i = 1 => scanned[i].frame.header.prev_hash = ZeroHash
                  /\ i > 1 => scanned[i].frame.header.prev_hash
                                  = compute_hash(scanned[i - 1].frame)
                  /\ IsDataPosition(i, n, k) /\ DataIndex(i, n, k) <= Len(hdrs)
                        => scanned[i].frame.payload = hdrs[DataIndex(i, n, k)]
            /\ \A j \in 1..Len(hdrs) : \E i \in 1..Len(scanned) :
                  IsDataPosition(i, n, k) /\ DataIndex(i, n, k) = j

\* pack has written a full block of two data frames with its two parity frames, and
\* a data frame after them
C17_Witness ==
    /\ pc = "packed"
    /\ fec.fec_rs = Some(<<2, 2>>)
    /\ Len(hdrs) = 3
    /\ Len(scanned) = 5

\* C19: every sidecar reader (timeline, verify with rs_repair) accepts an entry that
\* stores the parity list under parity_frame_ids, as pack writes it, and an entry that
\* stores it under the legacy key _parity_frame_ids
C19_SidecarReadable ==
    pc = "sidecar_read" => decoded.entries.ok

(***************************************************************************)
(* durapack-cli, commands/fec.rs: inject_parity.  The result tells what    *)
(* was written: written is the content of the stream file (None: no file   *)
(* written), sidecar the JSON array of the sidecar (None: not written).    *)
(***************************************************************************)
\* a faulty seed of the output buffer: the original data left out
out_bytes_seed_empty(data, dry_run) == <<>>

\* let mut out_bytes = if dry_run { Vec::new() } else { data.clone() }
out_bytes_seed(data, dry_run) == IF dry_run THEN <<>> ELSE data

\* the loop over the parity blocks of one block of timeline frames
RECURSIVE inject_parity_frames(_, _, _)
inject_parity_frames(st, parity_blocks, parity_ids) ==
    IF parity_blocks = <<>> THEN [st |-> st, parity_ids |-> parity_ids]
    ELSE
      LET frame_struct ==
              FrameBuilder_build_struct(
                  FrameBuilder_with_crc32c(
                      FrameBuilder_payload(
                          FrameBuilder_prev_hash(FrameBuilder_new(st.next_id), st.prev_hash),
                          Head(parity_blocks).data)))
          failed(e) == [st |-> [st EXCEPT !.err = Some(e)], parity_ids |-> parity_ids]
          written(encoded) ==
              IF ~encoded.ok THEN failed(encoded.err)
              ELSE inject_parity_frames(
                       [st EXCEPT !.prev_hash = compute_hash(frame_struct.val),
                                  !.out_bytes = IF st.dry_run THEN @ ELSE @ \o encoded.val,
                                  !.next_id = @ + 1],
                       Tail(parity_blocks), Append(parity_ids, st.next_id))
      IN  IF ~frame_struct.ok THEN failed(frame_struct.err)
          ELSE written(encode_frame_struct(frame_struct.val))

RECURSIVE inject_blocks(_, _, _, _)
\* a full block: blocks is the result of encode_batch on it, rest the frames after it
inject_block_parity(st, block, blocks, rest, n_data, k_parity) ==
    IF ~blocks.ok THEN [st EXCEPT !.err = Some(<<"RS encode failed", blocks.err>>)]
    ELSE
      LET recorded(done) ==
              IF done.st.err # None THEN done.st
              ELSE inject_blocks(
                       [done.st EXCEPT
                          !.fec_index = Append(@, FecIndexEntry(block[1].header.frame_id,
                                                                n_data, k_parity,
                                                                done.parity_ids)),
                          !.block = <<>>],
                       rest, n_data, k_parity)
      IN  recorded(inject_parity_frames(
                       st, SubSeq(blocks.val, n_data + 1, Len(blocks.val)), <<>>))

\* the loop over the frames of the timeline
inject_blocks(st, timeline_frames, n_data, k_parity) ==
    IF timeline_frames = <<>> \/ st.err # None THEN st
    ELSE
      LET block == Append(st.block, Head(timeline_frames))
      IN  IF Len(block) # n_data
          THEN inject_blocks([st EXCEPT !.block = block], Tail(timeline_frames),
                             n_data, k_parity)
          ELSE inject_block_parity(st, block,
                                   encode_batch(RsEncoder(n_data, k_parity), block, 0),
                                   Tail(timeline_frames), n_data, k_parity)

NothingWritten(result, tl) ==
    [result |-> result, written |-> None, sidecar |-> None, timeline |-> tl]

\* the input scanned and linked: tl is the timeline of its frames
inject_timeline(data, tl, n_data, k_parity, fec_index_out, dry_run) ==
    IF tl.frames = <<>> THEN NothingWritten(Err("No ordered frames available"), <<>>)
    ELSE
      LET last == tl.frames[Len(tl.frames)]
          finished(st) ==
              IF st.err # None THEN NothingWritten(Err(st.err[1]), tl.frames)
              ELSE [result |-> Ok(TRUE),
                    written |-> IF dry_run THEN None ELSE Some(st.out_bytes),
                    sidecar |-> IF fec_index_out
                                THEN Some(to_json_array(st.fec_index)) ELSE None,
                    timeline |-> tl.frames]
      IN  finished(inject_blocks([out_bytes |-> out_bytes_seed(data, dry_run),
                                  dry_run |-> dry_run,
                                  prev_hash |-> compute_hash(last),
                                  next_id |-> last.header.frame_id + 1,
                                  block |-> <<>>, fec_index |-> <<>>, err |-> None],
                                 tl.frames, n_data, k_parity))

\* the input scanned: located is the result of scan_stream
inject_located(data, located, n_data, k_parity, fec_index_out, dry_run) ==
    IF located.panicked THEN NothingWritten(located, <<>>)
    ELSE IF located.val = <<>>
    THEN NothingWritten(Err("No frames found to protect"), <<>>)
    ELSE inject_timeline(data,
                         link_frames([i \in 1..Len(located.val) |-> located.val[i].frame]),
                         n_data, k_parity, fec_index_out, dry_run)

inject_parity(data, n_data, k_parity, fec_index_out, dry_run, build) ==
    inject_located(data, scan_stream(data, build), n_data, k_parity, fec_index_out, dry_run)

(***************************************************************************)
(* Injection: an input file is written frame by frame (a frame chained to  *)
(* the one before, or detached from it), then inject_parity runs on it.    *)
(***************************************************************************)
MaxInput == 3

\* a frame of the input: its payload, and whether it is chained to the frame before
InputFrameChoices == {<<<<>>, TRUE>>, <<<<65>>, TRUE>>, <<<<65>>, FALSE>>}


\* the frames written so far, as make_durp_with_frames builds them; a detached
\* frame carries a prev_hash that is no frame's hash
AppendInputFrame(payload, chained) ==
    /\ pc \in {"init", "input"}
    /\ Len(hdrs) < MaxInput
    /\ LET id == Len(hdrs) + 1
           prev == IF ~chained THEN OtherHash
                   ELSE IF hdrs = <<>> THEN ZeroHash
                   ELSE compute_hash(hdrs[Len(hdrs)])
           marked(b) == IF id = 1 THEN FrameBuilder_mark_first(b) ELSE b
       IN  \E f \in {FrameBuilder_build_struct(
                         FrameBuilder_prev_hash(
                             FrameBuilder_with_crc32c(
                                 marked(FrameBuilder_payload(FrameBuilder_new(id),
                                                             payload))),
                             prev))} :
              /\ f.ok
              /\ hdrs' = Append(hdrs, f.val)
              /\ \E enc \in {encode_frame_struct(f.val)} :
                    /\ enc.ok
                    /\ stream' = stream \o enc.val
    /\ pc' = "input"
    /\ UNCHANGED <<cleanScan, scanned, decoded, inserted, linkVars, fec, ilv>>

InjectParity(n_data, k_parity, fec_index_out, dry_run, build) ==
    /\ pc \in {"init", "input"}
    /\ fec' = [n_data |-> n_data, k_parity |-> k_parity,
               fec_index_out |-> fec_index_out, dry_run |-> dry_run]
              @@ inject_parity(stream, n_data, k_parity, fec_index_out, dry_run, build)
    /\ pc' = "injected"
    /\ UNCHANGED <<codecVars, linkVars, ilv>>

NextInject ==
    \/ \E choice \in InputFrameChoices : AppendInputFrame(choice[1], choice[2])
    \/ \E n_data \in 1..MaxData, k_parity \in 1..MaxParity,
          fec_index_out \in BOOLEAN, dry_run \in BOOLEAN :
          InjectParity(n_data, k_parity, fec_index_out, dry_run, CliBuild)

SpecInject == Init /\ [][NextInject]_vars

\* the frames found in the bytes follow one another from the first byte to the last
Tiles(located, len) ==
    /\ \A i \in 1..Len(located) :
          located[i].offset = IF i = 1 THEN 0
                              ELSE located[i - 1].offset + located[i - 1].size
    /\ len = IF located = <<>> THEN 0
             ELSE located[Len(located)].offset + located[Len(located)].size

\* the full blocks of a timeline of t frames
FullBlocks(t, n) == t \div n

C18_BlockGrouping ==
    (pc = "injected" /\ fec.fec_index_out) =>
        IF scan_stream(stream, CliBuild).val = <<>>
        THEN ~fec.result.ok
        ELSE \E tl \in {link_frames(hdrs).frames} :
                 /\ fec.sidecar # None
                 /\ Len(fec.sidecar[1]) = FullBlocks(Len(tl), fec.n_data)
                 /\ \A j \in 0..(Len(fec.sidecar[1]) - 1) :
                       LET entry == fec.sidecar[1][j + 1]
                       IN  /\ entry["block_start_id"] = tl[j * fec.n_data + 1].header.frame_id
                           /\ entry["data"] = fec.n_data
                           /\ entry["parity"] = fec.k_parity
                           /\ Len(entry["parity_frame_ids"]) = fec.k_parity

(***************************************************************************)
(* Scanner on damaged streams: a buffer is put together piece by piece     *)
(* from whole frames of each trailer type, a marker with nothing behind    *)
(* it, and a frame with a wrong checksum whose payload is a whole frame;   *)
(* the three scanner variants are then run on it in one of the builds.     *)
(***************************************************************************)
MaxPieces == 3

\* the bytes encode_frame writes for frame 1 with these flags and this payload
PieceFrame(flags, payload) ==
    encode_frame(FrameHeader(1, ZeroHash, Len(payload), flags), payload).val

\* a frame with a CRC32C trailer whose last trailer byte is wrong
BrokenFrame(payload) ==
    LET whole == PieceFrame(HAS_CRC32C, payload)
    IN  Slice(whole, 0, Len(whole) - 1) \o <<(whole[Len(whole)] + 1) % 256>>

PieceChoices ==
    {PieceFrame(0, <<65>>), PieceFrame(HAS_CRC32C, <<>>), PieceFrame(HAS_BLAKE3, <<>>),
     PieceFrame(HAS_CRC32C + HAS_BLAKE3, <<>>), FRAME_MARKER \o <<0>>,
     BrokenFrame(PieceFrame(0, <<65>>))}

AppendPiece(piece) ==
    /\ pc \in {"init", "pieces"}
    /\ Len(hdrs) < MaxPieces
    /\ hdrs' = Append(hdrs, Len(piece))
    /\ stream' = stream \o piece
    /\ pc' = "pieces"
    /\ UNCHANGED <<cleanScan, scanned, decoded, inserted, linkVars, fec, ilv>>

ScanBuffer(build) ==
    /\ pc = "pieces"
    /\ \E plain \in {scan_stream(stream, build)} :
          /\ ~plain.panicked
          /\ scanned' = plain.val
    /\ \E with_stats \in {scan_stream_with_stats(stream, build)},
          zero_copy \in {scan_stream_zero_copy(stream, build)} :
          /\ ~with_stats.panicked /\ ~zero_copy.panicked
          /\ decoded' = [build |-> build, with_stats |-> with_stats.val[1],
                         stats |-> with_stats.val[2], zero_copy |-> zero_copy.val]
    /\ pc' = "scans"
    /\ UNCHANGED <<hdrs, stream, cleanScan, inserted, linkVars, fec, ilv>>

NextScanner ==
    \/ \E piece \in PieceChoices : AppendPiece(piece)
    \/ \E build \in Builds : ScanBuffer(build)

SpecScanner == Init /\ [][NextScanner]_vars

\* the positions of the buffer that hold the marker
MarkerPositions(data) ==
    {p \in 0..(Len(data) - Len(FRAME_MARKER)) :
        Slice(data, p, p + Len(FRAME_MARKER)) = FRAME_MARKER}

\* C21: the located frames of scan_stream have strictly increasing offsets, do not
\* overlap, lie inside the buffer, start at a position holding 'DURP' and have size
\* 50 + payload_len + trailer size; the search resumes 4 bytes after a failed decode,
\* so every marker position outside the located frames is one where decoding fails
C21_ScannerCursor ==
    pc = "scans" =>
        /\ \A i \in 1..Len(scanned) :
              /\ i > 1 => scanned[i - 1].offset + scanned[i - 1].size <= scanned[i].offset
              /\ i > 1 => scanned[i - 1].offset < scanned[i].offset
              /\ scanned[i].offset + scanned[i].size <= Len(stream)
              /\ scanned[i].offset \in MarkerPositions(stream)
              /\ scanned[i].size = 50 + scanned[i].frame.header.payload_len
                     + trailer_size(trailer_type(scanned[i].frame.header.flags))
        /\ \A p \in MarkerPositions(stream) :
              \/ \E i \in 1..Len(scanned) :
                    scanned[i].offset <= p /\ p < scanned[i].offset + scanned[i].size
              \/ ~try_decode_at_offset(stream, p, decoded.build).ok

\* a frame was found behind a marker whose decode failed, less than a header away
C21_Witness ==
    /\ pc = "scans"
    /\ \E i \in 1..Len(scanned), p \in MarkerPositions(stream) :
          /\ p < scanned[i].offset
          /\ scanned[i].offset < p + MIN_HEADER_SIZE
          /\ ~try_decode_at_offset(stream, p, decoded.build).ok
    /\ Len(scanned) >= 2

\* C22: scan_stream, scan_stream_with_stats and scan_stream_zero_copy return the same
\* located frames: equal offsets, sizes and frames (header, payload, trailer field),
\* for every trailer type and for frames without a trailer
C22_ScannersAgree ==
    pc = "scans" => (decoded.with_stats = scanned /\ decoded.zero_copy = scanned)


(***************************************************************************)
(* Head selection: the frames a caller hands to link_frames carry any      *)
(* flags FrameHeader::new accepts, so a frame may be flagged IS_FIRST or   *)
(* not, whatever its prev_hash is.                                         *)
(***************************************************************************)
HeadFlagChoices == {0, IS_FIRST}

PushFlaggedFrame(id, flags) ==
    /\ pc \in {"init", "building"}
    /\ Len(frames) < MaxFrames
    /\ \E prev_hash \in PrevHashChoices(frames) :
           frames' = Append(frames, Frame(FrameHeader(id, prev_hash, 0, flags), <<>>, None))
    /\ pc' = "building"
    /\ UNCHANGED <<codecVars, origin, timeline, fec, ilv>>

NextHead ==
    \/ \E id \in 1..MaxId, flags \in HeadFlagChoices : PushFlaggedFrame(id, flags)
    \/ Link

SpecHead == Init /\ [][NextHead]_vars

\* the input frames that carry the IS_FIRST flag
Flagged(fs) == {i \in 1..Len(fs) : HasFlag(fs[i].header.flags, IS_FIRST)}

\* C23: head selection. When an input frame carries the IS_FIRST flag, the first
\* frame of the timeline is the flagged frame with the smallest frame_id; when no
\* input frame is a first frame (none is flagged, none has a zero prev_hash), the
\* timeline lists all input frames in ascending frame_id order and has no orphans.
C23_HeadSelection ==
    pc = "linked" =>
        /\ Flagged(frames) # {} =>
               /\ timeline.frames # <<>>
               /\ HasFlag(timeline.frames[1].header.flags, IS_FIRST)
               /\ \A i \in Flagged(frames) :
                      timeline.frames[1].header.frame_id <= frames[i].header.frame_id
        /\ (Flagged(frames) = {} /\ \A i \in 1..Len(frames) : ~is_first(frames[i].header)) =>
               /\ timeline.orphans = <<>>
               /\ Len(timeline.frames) = Len(frames)
               /\ Range(timeline.frames) = Range(frames)
               /\ \A i \in 1..(Len(timeline.frames) - 1) :
                      timeline.frames[i].header.frame_id
                          <= timeline.frames[i + 1].header.frame_id


(***************************************************************************)
(* Further properties of the timelines link_frames returns (SpecLinker).   *)
(***************************************************************************)
\* how often the frame f occurs in the sequence fs
Occurrences(fs, f) == Cardinality({i \in 1..Len(fs) : fs[i] = f})

\* C26: the linker loses no frame. Each input frame appears exactly once in
\* timeline.frames or timeline.orphans, so frames.len() + orphans.len() is the
\* number of input frames, also when several input frames carry the same frame_id.
C26_NoFrameLost ==
    pc = "linked" =>
        /\ Len(timeline.frames) + Len(timeline.orphans) = Len(frames)
        /\ \A i \in 1..Len(frames) :
               Occurrences(timeline.frames \o timeline.orphans, frames[i])
                   = Occurrences(frames, frames[i])

\* the ids that occur as `after` of a recorded gap
GapAfters(tl) == {tl.gaps[i].after : i \in 1..Len(tl.gaps)}

\* the ids verify_backlinks reports
Mismatches(tl) == {e[2] : e \in Range(verify_backlinks(tl))}

\* C27: gaps and broken back-links coincide. verify_backlinks reports
\* BackLinkMismatch(id) for exactly the ids that occur as `after` of a recorded
\* gap: two neighbours of timeline.frames are separated by a recorded gap if and
\* only if the later one's prev_hash differs from the chain hash of the earlier one.
C27_GapsAreBrokenLinks ==
    pc = "linked" =>
        /\ Mismatches(timeline) = GapAfters(timeline)
        /\ \A i \in 1..(Len(timeline.frames) - 1) :
               (\E g \in Range(timeline.gaps) :
                    /\ g.before = timeline.frames[i].header.frame_id
                    /\ g.after = timeline.frames[i + 1].header.frame_id)
               <=> timeline.frames[i + 1].header.prev_hash
                       # compute_hash(timeline.frames[i])

\* C28: every SequenceGap recorded by link_frames has before < after, for every
\* input (also when the head does not have the smallest frame_id, and when several
\* frames have a zero prev_hash).
C28_GapOrdered ==
    pc = "linked" =>
        \A i \in 1..Len(timeline.gaps) : timeline.gaps[i].before < timeline.gaps[i].after


(***************************************************************************)
(* linker.rs: the report of analyze_timeline / analyze_located_frames.     *)
(***************************************************************************)
GapDetail(gap, reason) == [gap |-> gap, reason |-> reason]

ChainConflict(at, contenders) == [at |-> at, contenders |-> contenders]

OrphanCluster(ids) == [ids |-> ids]

InsertParityFrame(between, reason) ==
    [recipe |-> "InsertParityFrame", between |-> between, reason |-> reason]

RewindOffset(near_frame, by_bytes, reason) ==
    [recipe |-> "RewindOffset", near_frame |-> near_frame, by_bytes |-> by_bytes,
     reason |-> reason]

TimelineReport(timeline_, gap_details, conflicts, orphan_clusters, recipes) ==
    [timeline |-> timeline_, gap_details |-> gap_details, conflicts |-> conflicts,
     orphan_clusters |-> orphan_clusters, recipes |-> recipes]

\* hash_to_id.get(h): the id inserted last for the hash h, None when there is none
hash_to_id_get(all, h) ==
    LET with == {i \in 1..Len(all) : compute_hash(all[i]) = h}
    IN  IF with = {} THEN None
        ELSE Some(all[CHOOSE i \in with : \A j \in with : j <= i].header.frame_id)

\* the reason of one gap; g.before + 1 is a u64 addition
gap_reason(all, g, build) ==
    LET sum == u64_add_one(g.before)
    IN  IF sum.overflow /\ build.overflow_checks
        THEN Panicked("attempt to add with overflow")
        ELSE IF g.after # sum.val THEN Returned("MissingById")
        ELSE IF g.before \in FrameIdsOf(all) /\ g.after \in FrameIdsOf(all)
        THEN IF LastWithId(all, g.after).header.prev_hash
                    = compute_hash(LastWithId(all, g.before))
             THEN Returned("MissingById")
             ELSE Returned("MissingByHash")
        ELSE Returned("MissingById")

\* the ids of the frames of id_map that name the frame pred as their predecessor
successors_of(all, pred) ==
    {id \in FrameIdsOf(all) :
        hash_to_id_get(all, LastWithId(all, id).header.prev_hash) = Some(pred)}

report_conflicts(all) ==
    LET preds == SortedIds({p \in FrameIdsOf(all) :
                               Cardinality(successors_of(all, p)) > 1})
    IN  [i \in 1..Len(preds) |->
            ChainConflict(preds[i], SortedIds(successors_of(all, preds[i])))]

\* the orphans linked to the orphan id: its predecessor when that is an orphan,
\* and the orphans whose predecessor it is
orphan_links(all, orphans, id) ==
    {other \in FrameIdsOf(orphans) :
        \E i \in 1..Len(orphans) :
            \/ /\ orphans[i].header.frame_id = id
               /\ hash_to_id_get(all, orphans[i].header.prev_hash) = Some(other)
            \/ /\ orphans[i].header.frame_id = other
               /\ hash_to_id_get(all, orphans[i].header.prev_hash) = Some(id)}

\* the connected component the search from the ids in reached visits
RECURSIVE component(_, _, _)
component(all, orphans, reached) ==
    LET more == reached \cup UNION {orphan_links(all, orphans, id) : id \in reached}
    IN  IF more = reached THEN reached ELSE component(all, orphans, more)

RECURSIVE clusters_from(_, _, _)
clusters_from(all, orphans, visited) ==
    LET rest == FrameIdsOf(orphans) \ visited
    IN  IF rest = {} THEN <<>>
        ELSE LET fid == CHOOSE x \in rest : \A y \in rest : u64_le(x, y)
                 ids == component(all, orphans, {fid})
             IN  <<OrphanCluster(SortedIds(ids))>>
                     \o clusters_from(all, orphans, visited \cup ids)

\* off.get(id): offset and size of the located frame inserted last for the id
off_get(locs, id) ==
    LET with == {i \in 1..Len(locs) : locs[i].frame.header.frame_id = id}
    IN  IF with = {} THEN None
        ELSE LET lf == locs[CHOOSE i \in with : \A j \in with : j <= i]
             IN  Some(<<lf.offset, lf.size>>)

rewind_recipes(gap_details, located) ==
    IF located = None THEN <<>>
    ELSE LET known == SelectSeq(gap_details, LAMBDA gd :
                          /\ off_get(located[1], gd.gap.before) # None
                          /\ off_get(located[1], gd.gap.after) # None)
         IN  [i \in 1..Len(known) |->
                 LET before == off_get(located[1], known[i].gap.before)[1]
                     after == off_get(located[1], known[i].gap.after)[1]
                 IN  RewindOffset(known[i].gap.after,
                                  after[1] - (before[1] + before[2]),
                                  "non-contiguous offsets across gap")]

report_of(tl, all, reasons, located) ==
    LET gap_details == [i \in 1..Len(tl.gaps) |-> GapDetail(tl.gaps[i], reasons[i].val)]
        parity == [i \in 1..Len(gap_details) |->
                      InsertParityFrame(<<gap_details[i].gap.before,
                                          gap_details[i].gap.after>>,
                                        "gap detected: " \o gap_details[i].reason)]
    IN  TimelineReport(tl, gap_details, report_conflicts(all),
                       clusters_from(all, tl.orphans, {}),
                       parity \o rewind_recipes(gap_details, located))

build_report_from_timeline(tl, located, build) ==
    LET all == tl.frames \o tl.orphans
        reasons == [i \in 1..Len(tl.gaps) |-> gap_reason(all, tl.gaps[i], build)]
    IN  IF \E i \in 1..Len(reasons) : IsPanic(reasons[i])
        THEN Panicked("attempt to add with overflow")
        ELSE Returned(report_of(tl, all, reasons, located))

analyze_timeline(fs, build) == build_report_from_timeline(link_frames(fs), None, build)

analyze_located_frames(located_frames, build) ==
    build_report_from_timeline(
        link_frames([i \in 1..Len(located_frames) |-> located_frames[i].frame]),
        Some(located_frames), build)

(***************************************************************************)
(* Analysis: a caller collects frames with any u64 ids, the largest         *)
(* included, and asks for the report, with or without the offsets at which  *)
(* the frames were found.                                                   *)
(***************************************************************************)
WideIdChoices == {0, 1, u64_MAX}

\* the builds of the library with the std feature, with and without overflow checks
ReportBuilds == {b \in Builds : b.std}

PushWideFrame(id) ==
    /\ pc \in {"init", "building"}
    /\ Len(frames) < MaxFrames
    /\ \E prev_hash \in PrevHashChoices(frames) :
           frames' = Append(frames, Frame(FrameHeader(id, prev_hash, 0, 0), <<>>, None))
    /\ pc' = "building"
    /\ UNCHANGED <<codecVars, origin, timeline, fec, ilv>>

\* the frames as a scanner finds them when they are written one after the other
RECURSIVE LocateAll(_, _)
LocateAll(fs, offset) ==
    IF fs = <<>> THEN <<>>
    ELSE <<LocatedFrame(offset, Head(fs), MIN_HEADER_SIZE)>>
             \o LocateAll(Tail(fs), offset + MIN_HEADER_SIZE)

AnalyzeTimeline(build) ==
    /\ pc = "building"
    /\ timeline' = [build |-> build, located |-> FALSE,
                    report |-> analyze_timeline(frames, build)]
    /\ pc' = "analyzed"
    /\ UNCHANGED <<codecVars, frames, origin, fec, ilv>>

AnalyzeLocatedFrames(build) ==
    /\ pc = "building"
    /\ timeline' = [build |-> build, located |-> TRUE,
                    report |-> analyze_located_frames(LocateAll(frames, 0), build)]
    /\ pc' = "analyzed"
    /\ UNCHANGED <<codecVars, frames, origin, fec, ilv>>

NextReport ==
    \/ \E id \in WideIdChoices : PushWideFrame(id)
    \/ \E build \in ReportBuilds : AnalyzeTimeline(build)
    \/ \E build \in ReportBuilds : AnalyzeLocatedFrames(build)

SpecReport == Init /\ [][NextReport]_vars

\* after is the integer before + 1 (2^64 is the id of no frame)
IntegerSuccessor(before, after) == before # u64_MAX /\ after = before + 1

\* the frame of the analysed input that carries the id
InputFrame(id) == LastWithId(frames, id)

\* C24: gap classification. In the report every gap (before, after) is
\* MissingById when after is not the integer before + 1, and MissingByHash when
\* after is before + 1 and the prev_hash of the frame `after` differs from the
\* chain hash of the frame `before`; for all 64-bit ids, before = 2^64 - 1 included.
C24_GapClassification ==
    pc = "analyzed" =>
        /\ ~IsPanic(timeline.report)
        /\ \A gd \in Range(timeline.report.val.gap_details) :
               /\ ~IntegerSuccessor(gd.gap.before, gd.gap.after)
                      => gd.reason = "MissingById"
               /\ (/\ IntegerSuccessor(gd.gap.before, gd.gap.after)
                   /\ InputFrame(gd.gap.after).header.prev_hash
                          # compute_hash(InputFrame(gd.gap.before)))
                      => gd.reason = "MissingByHash"


(***************************************************************************)
(* Damaged FEC input: besides losing blocks, the caller of decode_batch may *)
(* hold a block whose data was cut short.                                   *)
(***************************************************************************)
\* the data of one available block loses its last byte
TruncateBlock(i) ==
    /\ pc = "fec_encoded"
    /\ fec.blocks.ok
    /\ i \in 1..Len(fec.avail)
    /\ fec.avail[i] = fec.blocks.val[fec.avail[i].index + 1]
    /\ Len(fec.avail[i].data) > 0
    /\ fec' = [fec EXCEPT !.avail[i].data = SubSeq(@, 1, Len(@) - 1)]
    /\ pc' = "fec_encoded"
    /\ UNCHANGED <<codecVars, linkVars, ilv>>

NextFecDamage ==
    \/ \E payload \in FecPayloadChoices : AddFrame(payload)
    \/ \E data_shards \in {1, MaxData + 1}, parity_shards \in 0..MaxParity,
          redundancy \in {0, 1} : EncodeBatch(data_shards, parity_shards, redundancy)
    \/ \E i \in 1..(MaxData + 1 + MaxParity) : DropBlock(i)
    \/ \E i \in 1..(MaxData + 1 + MaxParity) : TruncateBlock(i)
    \/ DecodeBatch

SpecFecDamage == Init /\ [][NextFecDamage]_vars

\* C25: decode_batch rejects inconsistent input. It returns InvalidStructure, and
\* no frames, whenever the supplied blocks do not all have the same data length,
\* whenever fewer than N distinct shard indices are supplied, and whenever the
\* parameters are inadmissible (no blocks).
C25_DecodeRejects ==
    pc = "fec_decoded" =>
        LET blocks == fec.avail
            N == Len(fec.frames)
        IN  (\/ \E i, j \in 1..Len(blocks) : Len(blocks[i].data) # Len(blocks[j].data)
             \/ Cardinality({blocks[i].index : i \in 1..Len(blocks)}) < N
             \/ blocks = <<>>)
                => IsErr(fec.recovered, "InvalidStructure")


(***************************************************************************)
(* Injection into a file whose frames carry any ids: each frame is chained  *)
(* to the one written before it, whatever its frame_id is.                  *)
(***************************************************************************)
AppendNumberedFrame(id) ==
    /\ pc \in {"init", "input"}
    /\ Len(hdrs) < MaxInput
    /\ LET prev == IF hdrs = <<>> THEN ZeroHash ELSE compute_hash(hdrs[Len(hdrs)])
           marked(b) == IF hdrs = <<>> THEN FrameBuilder_mark_first(b) ELSE b
       IN  \E f \in {FrameBuilder_build_struct(
                         FrameBuilder_prev_hash(
                             FrameBuilder_with_crc32c(
                                 marked(FrameBuilder_payload(FrameBuilder_new(id),
                                                             <<65>>))),
                             prev))} :
              /\ f.ok
              /\ hdrs' = Append(hdrs, f.val)
              /\ \E enc \in {encode_frame_struct(f.val)} :
                    /\ enc.ok
                    /\ stream' = stream \o enc.val
    /\ pc' = "input"
    /\ UNCHANGED <<cleanScan, scanned, decoded, inserted, linkVars, fec, ilv>>

NextInjectIds ==
    \/ \E id \in 1..MaxId : AppendNumberedFrame(id)
    \/ \E n_data \in 1..MaxData, k_parity \in 1..MaxParity,
          fec_index_out \in BOOLEAN, dry_run \in BOOLEAN :
          InjectParity(n_data, k_parity, fec_index_out, dry_run, CliBuild)

SpecInjectIds == Init /\ [][NextInjectIds]_vars

\* the parity frame ids of the sidecar, entry after entry
RECURSIVE ParityIds(_)
ParityIds(entries) ==
    IF entries = <<>> THEN <<>>
    ELSE Head(entries)["parity_frame_ids"] \o ParityIds(Tail(entries))

\* C29: the parity frame ids inject_parity assigns are fresh: pairwise distinct,
\* and distinct from every frame_id present in the input stream, for every input
\* timeline (also when its last ordered frame does not carry the largest frame_id).
C29_FreshParityIds ==
    (pc = "injected" /\ fec.result.ok /\ fec.sidecar # None) =>
        \E ids \in {ParityIds(fec.sidecar[1])} :
            /\ \A i, j \in 1..Len(ids) : i # j => ids[i] # ids[j]
            /\ \A i \in 1..Len(ids) : ids[i] \notin FrameIdsOf(hdrs)


(***************************************************************************)
(* linker.rs: Timeline::seek_with_skiplist, one loop iteration per step.   *)
(* Frame::new leaves skip_links at None; the field is public, and a frame  *)
(* whose skip_links a caller has set carries it through link_frames.       *)
(***************************************************************************)
SkipLink(level, target_id, hint) == [level |-> level, target_id |-> target_id, hint |-> hint]

\* a frame with its skip_links field
WithSkipLinks(frame, skip_links) == frame @@ [skip_links |-> skip_links]

\* map.range(..=bound).next_back(): the frame with the largest id <= bound
range_next_back(fs, bound) ==
    LET below == {id \in FrameIdsOf(fs) : u64_le(id, bound)}
    IN  IF below = {} THEN None
        ELSE Some(LastWithId(fs, CHOOSE id \in below : \A other \in below : u64_le(other, id)))

\* (level, target_id) of a is at most that of b
link_key_le(a, b) ==
    a.level < b.level \/ (a.level = b.level /\ u64_le(a.target_id, b.target_id))

\* links.iter().filter(|l| l.target_id <= target_id).max_by_key(..): the last of the
\* links with the largest key
best_link(links, target_id) ==
    LET fit == {i \in 1..Len(links) : u64_le(links[i].target_id, target_id)}
        top == {i \in fit : \A j \in fit : link_key_le(links[j], links[i])}
    IN  IF fit = {} THEN None
        ELSE Some(links[CHOOSE i \in top : \A j \in top : j <= i])

\* the state of a seek: Looping(cursor) before an iteration, Found(result) at return
Looping(cursor) == [returned |-> FALSE, cursor |-> cursor]

Found(result) == [returned |-> TRUE, result |-> result]

\* the frame the skip links of cursor lead to, None when none of them is followed
skip_target(fs, target_id, cursor) ==
    IF cursor.skip_links = None THEN None
    ELSE LET best == best_link(cursor.skip_links[1], target_id)
         IN  IF best = None THEN None
             ELSE IF best[1].target_id \in FrameIdsOf(fs)
             THEN Some(LastWithId(fs, best[1].target_id))
             ELSE None

\* the id just below id, when there is one (id is never 0 here: a frame lies below)
step_back(fs, id) ==
    IF \E other \in FrameIdsOf(fs) : other # id /\ u64_le(other, id)
    THEN range_next_back(fs, id - 1)
    ELSE None

\* one iteration of the loop
seek_iteration(fs, target_id, cursor) ==
    IF cursor.header.frame_id = target_id THEN Found(Some(cursor))
    ELSE IF skip_target(fs, target_id, cursor) # None
    THEN Looping(skip_target(fs, target_id, cursor)[1])
    ELSE IF step_back(fs, cursor.header.frame_id) # None
    THEN Looping(step_back(fs, cursor.header.frame_id)[1])
    ELSE Found(None)

\* the part of seek_with_skiplist before the loop
seek_entry(fs, target_id) ==
    IF target_id \in FrameIdsOf(fs) THEN Found(Some(LastWithId(fs, target_id)))
    ELSE IF range_next_back(fs, target_id) = None THEN Found(None)
    ELSE Looping(range_next_back(fs, target_id)[1])

(***************************************************************************)
(* Seeking: frames are chained one after the other, each with the skip     *)
(* links its writer gave it, and linked; then a target id is sought.       *)
(***************************************************************************)
MaxSkipFrames == 2

SkipLinkChoices ==
    {None}
        \cup {Some(<<SkipLink(0, t, None)>>) : t \in 1..MaxId}
        \cup {Some(<<SkipLink(0, 2, None), SkipLink(1, 1, None)>>)}

PushSkipFrame(id, skip_links) ==
    /\ pc \in {"init", "building"}
    /\ Len(frames) < MaxSkipFrames
    /\ LET prev_hash == IF frames = <<>> THEN ZeroHash
                        ELSE compute_hash(frames[Len(frames)])
       IN  frames' = Append(frames,
                            WithSkipLinks(Frame(FrameHeader(id, prev_hash, 0, 0), <<>>, None),
                                          skip_links))
    /\ pc' = "building"
    /\ UNCHANGED <<codecVars, origin, timeline, fec, ilv>>

\* turn is the parity of the number of iterations made, so that an iteration that
\* leaves the cursor where it was is still a step
SeekWithSkiplist(target_id) ==
    /\ pc = "linked"
    /\ decoded' = [target_id |-> target_id, turn |-> 0]
                      @@ seek_entry(timeline.frames, target_id)
    /\ pc' = "seeking"
    /\ UNCHANGED <<hdrs, stream, cleanScan, scanned, inserted, linkVars, fec, ilv>>

SeekLoop ==
    /\ pc = "seeking"
    /\ ~decoded.returned
    /\ decoded' = [target_id |-> decoded.target_id, turn |-> 1 - decoded.turn]
                      @@ seek_iteration(timeline.frames, decoded.target_id, decoded.cursor)
    /\ UNCHANGED <<pc, hdrs, stream, cleanScan, scanned, inserted, linkVars, fec, ilv>>

NextSeek ==
    \/ \E id \in 1..MaxId, skip_links \in SkipLinkChoices : PushSkipFrame(id, skip_links)
    \/ Link
    \/ \E target_id \in 0..(MaxId + 1) : SeekWithSkiplist(target_id)
    \/ SeekLoop

SpecSeek == Init /\ [][NextSeek]_vars

\* a started loop iterates until it returns
SpecSeekFair == Init /\ [][NextSeek]_vars /\ WF_vars(SeekLoop)

\* C30: seek_with_skiplist terminates for every timeline and every target id,
\* whatever the skip_links contain (links to the frame itself, to later frames, or
\* forming a cycle), and returns Some(frame) exactly when a frame with
\* frame_id == target_id is in timeline.frames.
C30_SeekTerminates ==
    /\ [](pc = "seeking" => <>(pc = "seeking" /\ decoded.returned))
    /\ []((pc = "seeking" /\ decoded.returned) =>
             ((decoded.result # None)
                  <=> decoded.target_id \in FrameIdsOf(timeline.frames)))

=============================================================================
